---- MODULE Spec2Model ----
(***************************************************************************)
(* Model of the v0 fetch pipeline of queso/ai-team-skills:                 *)
(*   v0-setup/scripts/zip-download.mjs   (archive download and extraction) *)
(*   v0-setup/scripts/version-list.mjs   (version enumeration, selection)  *)
(*   v0-setup/scripts/fetch-v0.mjs       (identity resolution, pipeline)   *)
(*   file-filter.mjs                     (classification, validation)      *)
(* Strings are tuples of one-character strings, so that trimming,          *)
(* splitting, prefix tests and substring tests are computed and not        *)
(* assumed.                                                                *)
(***************************************************************************)
EXTENDS Integers, Sequences, FiniteSets, TLC

\* null / undefined
NULL == [null |-> TRUE]

\* ------------------------------------------------------------------------
\* State
\* ------------------------------------------------------------------------
\* extractZipToDirectory (zip-download.mjs) and the disk
VARIABLES
    zipBuffer,    \* the archive: NULL, or [entries: <<[name, data]>>] in archive order
    targetDir,    \* the targetDir argument
    zPc,          \* "idle", "start", "loop", "done"
    zEntries,     \* Object.entries(unzipped)
    zIdx,         \* index of the next entry of the for loop
    zFiles,       \* const files = []
    zResult,      \* "none", "ok", or the error thrown
    fsDirs,       \* directories that exist on disk
    fsFiles,      \* files on disk: path -> data
    zWrites,      \* paths passed to writeFileSync calls that succeeded, in order
    zMkdirs       \* directories that a mkdirSync call of the extraction created

zipVars == << zipBuffer, targetDir, zPc, zEntries, zIdx, zFiles, zResult,
              fsDirs, fsFiles, zWrites, zMkdirs >>

\* a direct selectBestVersion call (version-list.mjs)
VARIABLES
    sVersions,    \* the versions argument of a direct selectBestVersion call
    sPc,          \* "idle", "start", "done"
    sResult       \* the value selectBestVersion returned

selVars == << sVersions, sPc, sResult >>

\* fetchVersionList, fetchWithChatIdFallback (version-list.mjs) and the server
VARIABLES
    fSlug,          \* slug argument (nullString when null)
    fHashId,        \* hashId argument
    pages,          \* the server's pages: [versions, isArray, cursor]
    fPc,            \* "idle", "start", "slugWait", "hashWait", "page", "pageWait", "done"
    requests,       \* every fetchImpl call made: [id, cursor]
    responses,      \* the status of every response received, in order
    allVersions,    \* const allVersions = []
    cursor,         \* let cursor = null (0: no cursor)
    resolvedChatId, \* let resolvedChatId = null
    isFirstPage,    \* let isFirstPage = true
    fbResult,       \* what fetchWithChatIdFallback returned or threw
    fResult         \* what fetchVersionList returned or threw

fetchVars == << fSlug, fHashId, pages, fPc, requests, responses, allVersions,
                cursor, resolvedChatId, isFirstPage, fbResult, fResult >>

\* runPipeline (fetch-v0.mjs)
VARIABLES
    options,              \* {inputArg, customName, outputDir, versionId, listVersions}
    pPc,                  \* the statement runPipeline is at
    calls,                \* the collaborators of deps invoked so far, in order
    identity,             \* {slug, hashId, featureName} of extractChatId
    effectiveFeatureName, \* customName || derivedFeatureName
    selectedVersionId,
    designDir,
    extractedFiles,
    customFileNames,
    classified,
    validationResult,
    manifest,             \* the manifest.json content written, NULL before
    logged,               \* deps.console.error lines
    pResult               \* what runPipeline returned or threw

pipeVars == << options, pPc, calls, identity, effectiveFeatureName,
               selectedVersionId, designDir, extractedFiles, customFileNames,
               classified, validationResult, manifest, logged, pResult >>

\* a function of the scripts called on its own
VARIABLES
    callee,       \* the function called, "none" when there is no such call
    args,         \* its arguments
    cPc,          \* "idle", "start", "done"
    cResult       \* what it returned or threw

callVars == << callee, args, cPc, cResult >>

vars == << zipVars, selVars, fetchVars, pipeVars, callVars >>

\* ------------------------------------------------------------------------
\* Bounds of the model
\* ------------------------------------------------------------------------
MaxEntries == 2
MaxPerPage == 2
MaxPages == 2
MaxList == 3
MaxRunVersions == 3
MaxFiles == 3
MaxNames == 3
MaxSegments == 3
MaxUrlSegments == 2
MaxArgs == 4
MaxRequests == 6

\* ------------------------------------------------------------------------
\* String helpers (String.prototype.*)
\* ------------------------------------------------------------------------
startsWith(s, prefix) ==
    /\ Len(prefix) <= Len(s)
    /\ SubSeq(s, 1, Len(prefix)) = prefix

includes(s, sub) ==
    \E i \in 1..(Len(s) + 1) :
        /\ i + Len(sub) - 1 <= Len(s)
        /\ SubSeq(s, i, i + Len(sub) - 1) = sub

RECURSIVE split(_, _)
\* s.split(sep) for a one-character separator: always at least one piece
split(s, sep) ==
    IF \A i \in 1..Len(s) : s[i] # sep
    THEN << s >>
    ELSE LET k == CHOOSE i \in 1..Len(s) :
                      /\ s[i] = sep
                      /\ \A j \in 1..(i - 1) : s[j] # sep
         IN  << SubSeq(s, 1, k - 1) >> \o split(SubSeq(s, k + 1, Len(s)), sep)

RECURSIVE join(_, _)
\* pieces.join(sep)
join(pieces, sep) ==
    IF Len(pieces) = 0 THEN << >>
    ELSE IF Len(pieces) = 1 THEN pieces[1]
    ELSE pieces[1] \o << sep >> \o join(Tail(pieces), sep)

Digits == { "0", "1", "2", "3", "4", "5", "6", "7", "8", "9" }

minOf(S) == CHOOSE x \in S : \A y \in S : x <= y

\* ------------------------------------------------------------------------
\* node:path (posix): resolve, dirname
\* ------------------------------------------------------------------------
\* process.cwd() of the run
cwd == << "/", "w" >>

isAbsolute(p) == Len(p) > 0 /\ p[1] = "/"

RECURSIVE normalizeSegments(_, _)
\* normalizeString of node:path for an absolute path: drops empty and "."
\* segments, ".." removes the previous segment and is dropped at the root
normalizeSegments(segs, acc) ==
    IF Len(segs) = 0 THEN acc
    ELSE LET s == Head(segs)
         IN  IF s = << >> \/ s = << "." >>
             THEN normalizeSegments(Tail(segs), acc)
             ELSE IF s = << ".", "." >>
             THEN normalizeSegments(Tail(segs),
                      IF Len(acc) = 0 THEN acc ELSE SubSeq(acc, 1, Len(acc) - 1))
             ELSE normalizeSegments(Tail(segs), Append(acc, s))

\* the path string of a normalized absolute segment list
pathOf(segs) == IF Len(segs) = 0 THEN << "/" >> ELSE << "/" >> \o join(segs, "/")

\* path.resolve(p): right to left until an absolute path is met, cwd last
resolve1(p) ==
    LET full == IF isAbsolute(p) THEN p
                ELSE IF Len(p) = 0 THEN cwd
                ELSE cwd \o << "/" >> \o p
    IN  pathOf(normalizeSegments(split(full, "/"), << >>))

\* path.resolve(base, name)
resolve(base, name) ==
    IF isAbsolute(name) THEN resolve1(name)
    ELSE IF Len(name) = 0 THEN resolve1(base)
    ELSE IF Len(base) = 0 THEN resolve1(name)
    ELSE resolve1(base \o << "/" >> \o name)

\* path.dirname of a normalized absolute path
dirname(p) ==
    LET segs == normalizeSegments(split(p, "/"), << >>)
    IN  IF Len(segs) = 0 THEN << "/" >> ELSE pathOf(SubSeq(segs, 1, Len(segs) - 1))

\* every directory on the way from the root to p, p included
ancestorsAndSelf(p) ==
    LET segs == normalizeSegments(split(p, "/"), << >>)
    IN  { pathOf(SubSeq(segs, 1, k)) : k \in 0..Len(segs) }

\* the target directory is a proper path-segment ancestor of p
strictlyInside(p, target) ==
    /\ p # target
    /\ target \in ancestorsAndSelf(p)

\* ------------------------------------------------------------------------
\* Archive extraction: zip-download.mjs, extractZipToDirectory
\* ------------------------------------------------------------------------

\* entry names the archives are built from
n_a == << "a" >>
n_d_a == << "d", "/", "a" >>
n_up_up_e == << ".", ".", "/", ".", ".", "/", "e" >>
n_abs_e == << "/", "e" >>
n_up_tx_e == << ".", ".", "/", "t", "x", "/", "e" >>
n_up_t_a == << ".", ".", "/", "t", "/", "a" >>
n_dot == << "." >>
n_7 == << "7" >>
n_d == << "d" >>

EntryNames == { n_a, n_d_a, n_up_up_e, n_abs_e, n_up_tx_e, n_up_t_a, n_dot, n_7, n_d }

\* entry payloads: bytes, "xFF" being a byte that is not valid UTF-8
EntryData(name) ==
    IF name = n_d_a THEN << "h", "xFF" >>
    ELSE IF name = n_7 THEN << >>
    ELSE << "h", "i" >>

RECURSIVE distinctSeqs(_, _)
\* the sequences of at most n distinct elements of S
distinctSeqs(S, n) ==
    IF n = 0 THEN { << >> }
    ELSE LET shorter == distinctSeqs(S, n - 1)
             longer == { Append(q, x) : q \in shorter, x \in S }
         IN  shorter \cup
             { q \in longer : \A i, j \in 1..Len(q) : i # j => q[i] # q[j] }

\* a zip buffer, as the entries unzipSync finds in it
Archives ==
    { [entries |-> [i \in 1..Len(q) |-> [name |-> q[i], data |-> EntryData(q[i])]]] :
          q \in distinctSeqs(EntryNames, MaxEntries) }

TargetDirs == { << "/", "w", "/", "t" >>, << "t" >>, << "/", "w", "/", "t", "/" >> }

\* an object key that is a canonical array index ("7"; not "07", not "a")
isIndexKey(name) ==
    /\ Len(name) > 0
    /\ \A i \in 1..Len(name) : name[i] \in Digits
    /\ (Len(name) > 1 => name[1] # "0")

\* Object.entries(unzipped): index-like keys first, then the other keys in
\* insertion order (the pool has one index-like name, so no numeric sort)
objectEntries(entries) ==
    LET isIdx(e) == isIndexKey(e.name)
        notIdx(e) == ~isIndexKey(e.name)
    IN  SelectSeq(entries, isIdx) \o SelectSeq(entries, notIdx)

\* new TextDecoder().decode(data): an invalid byte becomes U+FFFD
TextDecoder_decode_mutant(data) == data

TextDecoder_decode(data) ==
    [i \in 1..Len(data) |-> IF data[i] = "xFF" THEN "uFFFD" ELSE data[i]]

\* fs.mkdirSync(dir, {recursive: true}) fails when a file is in the way
mkdirSyncFails(files, dir) == \E d \in ancestorsAndSelf(dir) : d \in DOMAIN files

mkdirSync(dirs, dir) == dirs \cup ancestorsAndSelf(dir)

\* fs.writeFileSync(path, data) fails on a directory (EISDIR)
writeFileSyncFails(dirs, path) == path \in dirs

writeFileSync(files, path, data) ==
    [p \in (DOMAIN files) \cup { path } |-> IF p = path THEN data ELSE files[p]]

\* line 54: the guard of the extraction
escapesTarget(filePath, resolvedTarget) == ~startsWith(filePath, resolvedTarget)

\* lines 47-49: decode the archive; a null buffer is not a zip archive
extractStart ==
    /\ zPc = "start"
    /\ IF zipBuffer = NULL
       THEN /\ zPc' = "done"
            /\ zResult' = "InvalidZip"
            /\ UNCHANGED zEntries
       ELSE /\ zPc' = "loop"
            /\ zEntries' = objectEntries(zipBuffer.entries)
            /\ UNCHANGED zResult
    /\ zIdx' = 1
    /\ zFiles' = << >>
    /\ UNCHANGED << zipBuffer, targetDir, fsDirs, fsFiles, zWrites, zMkdirs >>
    /\ UNCHANGED << selVars, callVars, fetchVars, pipeVars >>

\* lines 52-61: one iteration of the for loop
extractEntry ==
    /\ zPc = "loop"
    /\ zIdx <= Len(zEntries)
    /\ LET name == zEntries[zIdx].name
           data == zEntries[zIdx].data
           resolvedTarget == resolve(targetDir, << >>)
           filePath == resolve(targetDir, name)
       IN  IF escapesTarget(filePath, resolvedTarget)
           THEN /\ zPc' = "done"
                /\ zResult' = "ZipSlip"
                /\ UNCHANGED << zIdx, zFiles, fsDirs, fsFiles, zWrites, zMkdirs >>
           ELSE IF mkdirSyncFails(fsFiles, dirname(filePath))
           THEN /\ zPc' = "done"
                /\ zResult' = "MkdirError"
                /\ UNCHANGED << zIdx, zFiles, fsDirs, fsFiles, zWrites, zMkdirs >>
           ELSE IF writeFileSyncFails(mkdirSync(fsDirs, dirname(filePath)), filePath)
           THEN /\ zPc' = "done"
                /\ zResult' = "WriteError"
                /\ fsDirs' = mkdirSync(fsDirs, dirname(filePath))
                /\ zMkdirs' = zMkdirs \cup (ancestorsAndSelf(dirname(filePath)) \ fsDirs)
                /\ UNCHANGED << zIdx, zFiles, fsFiles, zWrites >>
           ELSE /\ fsDirs' = mkdirSync(fsDirs, dirname(filePath))
                /\ zMkdirs' = zMkdirs \cup (ancestorsAndSelf(dirname(filePath)) \ fsDirs)
                /\ fsFiles' = writeFileSync(fsFiles, filePath, data)
                /\ zWrites' = Append(zWrites, filePath)
                /\ zFiles' = Append(zFiles, [name |-> name, size |-> Len(data),
                                             content |-> TextDecoder_decode(data)])
                /\ zIdx' = zIdx + 1
                /\ UNCHANGED << zPc, zResult >>
    /\ UNCHANGED << zipBuffer, targetDir, zEntries >>
    /\ UNCHANGED << selVars, callVars, fetchVars, pipeVars >>

\* line 63: return files
extractReturn ==
    /\ zPc = "loop"
    /\ zIdx > Len(zEntries)
    /\ zPc' = "done"
    /\ zResult' = "ok"
    /\ UNCHANGED << zipBuffer, targetDir, zEntries, zIdx, zFiles,
                    fsDirs, fsFiles, zWrites, zMkdirs >>
    /\ UNCHANGED << selVars, callVars, fetchVars, pipeVars >>

\* ------------------------------------------------------------------------
\* Versions: version-list.mjs
\* ------------------------------------------------------------------------

\* a missing property
undefined == "undefined"

\* a null or undefined versions argument
nullVersions == << [nullArray |-> TRUE] >>

\* createdAt strings, and new Date(s).getTime() in hours since
\* 2026-01-01T00:00:00Z: the order of the instants is not the order of the
\* strings, and two different strings can name one instant
Date_getTime(s) ==
    CASE s = "2026-01-01T00:00:00Z"      -> 0
      [] s = "2026-01-02T00:00:00Z"      -> 24
      [] s = "2026-01-01T23:00:00-01:00" -> 24
      [] s = "2026-01-01T22:00:00-03:00" -> 25

ver_001 == [id |-> "ver_001", status |-> "completed",  createdAt |-> "2026-01-01T00:00:00Z"]
ver_002 == [id |-> "ver_002", status |-> "completed",  createdAt |-> "2026-01-02T00:00:00Z"]
ver_003 == [id |-> "ver_003", status |-> "generating", createdAt |-> "2026-01-01T23:00:00-01:00"]
ver_004 == [id |-> "ver_004", status |-> undefined,    createdAt |-> "2026-01-01T22:00:00-03:00"]
ver_005 == [id |-> "ver_005", status |-> "Completed",  createdAt |-> "2026-01-01T00:00:00Z"]

\* what a versions array given to selectBestVersion may hold
VersionsOrNull == { ver_001, ver_002, ver_003, ver_004, ver_005, NULL }

RECURSIVE seqsUpTo(_, _)
\* the sequences of at most n elements of S
seqsUpTo(S, n) ==
    IF n = 0 THEN { << >> }
    ELSE LET shorter == seqsUpTo(S, n - 1)
         IN  shorter \cup { Append(q, x) : q \in shorter, x \in S }

\* Array.prototype.find: the first element that passes, or NULL
find(arr, Test(_)) ==
    IF \E i \in 1..Len(arr) : Test(arr[i])
    THEN arr[CHOOSE i \in 1..Len(arr) :
                 Test(arr[i]) /\ \A j \in 1..(i - 1) : ~Test(arr[j])]
    ELSE NULL

\* line 113: versions.find(...) ?? null, the fallback of selectBestVersion
fallbackVersion_mutant(versions) == versions[1]

fallbackVersion(versions) ==
    LET notNull(v) == v # NULL
    IN  find(versions, notNull)

\* lines 115-133
selectBestVersion(versions) ==
    IF versions = nullVersions \/ Len(versions) = 0 THEN NULL
    ELSE LET isCompleted(v) == v # NULL /\ v.status = "completed"
             completed == find(versions, isCompleted)
         IN  IF completed # NULL THEN completed
             ELSE fallbackVersion(versions)

\* a null or undefined string
nullString == << "null" >>

\* a string argument that is undefined
undefinedString == << "undefined" >>

\* the result of a call that has not finished
pending == [state |-> "pending"]

\* response statuses; 0 stands for a fetch that rejects (network failure)
Statuses == { 0, 200, 302, 401, 404, 500 }

\* response.ok
ok(status) == status >= 200 /\ status <= 299

\* versions the server can hold
ServerVersions == { ver_001, ver_002, ver_003, ver_004 }

\* the versions a server holds, in the order it delivers them
Deliveries == distinctSeqs(ServerVersions, MaxPerPage * MaxPages)

\* the ways to cut q in n pages of at most MaxPerPage versions each: c[k] is
\* the number of versions delivered once page k has been sent
cuts(q, n) ==
    { c \in [1..n -> 0..Len(q)] :
          /\ c[n] = Len(q)
          /\ \A k \in 1..n :
                 LET from == IF k = 1 THEN 0 ELSE c[k - 1]
                 IN  c[k] >= from /\ c[k] - from <= MaxPerPage }

\* page k of n: its versions array (or, when bare, no versions field where
\* the array would be empty) and a cursor on all but the last page
page(q, c, k, n, bare) ==
    LET from == IF k = 1 THEN 0 ELSE c[k - 1]
        vs == SubSeq(q, from + 1, c[k])
    IN  [versions |-> vs,
         isArray |-> ~(bare /\ Len(vs) = 0),
         cursor |-> IF k < n THEN k ELSE 0]

\* servers with N >= 1 pages and a cursor on all but the last: the cursor of
\* page k is k, and a request with cursor k is answered with page k + 1; a
\* server may also send the versions of its first page again on its last
Servers ==
    LET cutServers ==
            UNION { { [k \in 1..n |-> page(q, c, k, n, bare)] :
                          c \in cuts(q, n), bare \in BOOLEAN } :
                        q \in Deliveries, n \in 1..MaxPages }
        repeated(s) == [s EXCEPT ![Len(s)].versions = s[1].versions,
                                 ![Len(s)].isArray = s[1].isArray]
    IN  cutServers \cup { repeated(s) : s \in { t \in cutServers : Len(t) >= 2 } }

\* servers that answer every page with a cursor: the last page carries a
\* cursor the server has returned before, that of the request it answers
\* among them
CyclicServers ==
    UNION { { [s EXCEPT ![Len(s)].cursor = c] : c \in 1..(Len(s) - 1) } :
                s \in { t \in Servers : Len(t) >= 2 } }

\* the body the server sends for a request
serverBody(req) == pages[req.cursor + 1]

\* line 103: (a, b) => new Date(b.createdAt).getTime() - new Date(a.createdAt).getTime()
newestFirst_mutant(a, b) == Date_getTime(a.createdAt) - Date_getTime(b.createdAt)

newestFirst(a, b) == Date_getTime(b.createdAt) - Date_getTime(a.createdAt)

RECURSIVE insertSorted(_, _)
\* x goes before the first element that the comparator puts after it
insertSorted(sorted, x) ==
    IF Len(sorted) = 0 THEN << x >>
    ELSE IF newestFirst(Head(sorted), x) > 0 THEN << x >> \o sorted
    ELSE << Head(sorted) >> \o insertSorted(Tail(sorted), x)

RECURSIVE sortFrom(_, _)
sortFrom(arr, sorted) ==
    IF Len(arr) = 0 THEN sorted
    ELSE sortFrom(Tail(arr), insertSorted(sorted, Head(arr)))

\* line 103: allVersions.sort(newestFirst); Array.prototype.sort is stable
sort_mutant(arr) == arr

sort(arr) == sortFrom(arr, << >>)

\* lines 76-78 and 93-95: if (Array.isArray(data.versions)) allVersions.push(...data.versions)
collect_mutant(all, data) == IF data.isArray THEN data.versions ELSE all

collect(all, data) == IF data.isArray THEN all \o data.versions ELSE all

\* lines 80 and 97: if (!data.cursor) break
noCursor_mutant(data, cur) == data.cursor = 0 \/ data.cursor = cur

noCursor(data, cur) == data.cursor = 0

\* lines 75-80 and 92-98: take the page in, then leave the loop (sort and
\* return, lines 102-105) or keep the cursor for the next request
handlePage(data, rid) ==
    LET collected == collect(allVersions, data)
    IN  /\ resolvedChatId' = rid
        /\ isFirstPage' = FALSE
        /\ IF noCursor(data, cursor)
           THEN /\ allVersions' = sort(collected)
                /\ fPc' = "done"
                /\ fResult' = [state |-> "ok", versions |-> sort(collected),
                               resolvedChatId |-> rid]
                /\ UNCHANGED cursor
           ELSE /\ allVersions' = collected
                /\ cursor' = data.cursor
                /\ fPc' = "page"
                /\ UNCHANGED fResult

\* an error thrown with a message made of these parts
failure(msg, status, ident) ==
    [state |-> "error", msg |-> msg, status |-> status, ident |-> ident]

\* ------------------------------------------------------------------------
\* Pipeline state: fetch-v0.mjs, runPipeline
\* ------------------------------------------------------------------------

\* ------------------------------------------------------------------------
\* selectBestVersion called on its own
\* ------------------------------------------------------------------------
callSelectBestVersion ==
    /\ sPc = "start"
    /\ sPc' = "done"
    /\ sResult' = selectBestVersion(sVersions)
    /\ UNCHANGED << sVersions, zipVars, fetchVars, pipeVars, callVars >>

\* ------------------------------------------------------------------------
\* fetchWithChatIdFallback (lines 15-40) and fetchVersionList (lines 51-106)
\* ------------------------------------------------------------------------
request(endpoint, id, cur, version) ==
    [endpoint |-> endpoint, id |-> id, cursor |-> cur, versionId |-> version]

\* line 28: if (slugResponse.status === 404)
shouldFallback_mutant(status) == ~ok(status)

shouldFallback(status) == status = 404

\* line 29: buildUrl(hashId)
fallbackId_mutant(slug, hashId) == slug

fallbackId(slug, hashId) == hashId

\* lines 52-66, 16-22: enter the loop; the first page goes through
\* fetchWithChatIdFallback, which checks slug and issues the slug request
fetchSlugRequest ==
    /\ fPc = "start"
    /\ IF fSlug = nullString
       THEN /\ fbResult' = failure("slug must be a string", 0, << >>)
            /\ fResult' = failure("slug must be a string", 0, << >>)
            /\ fPc' = "done"
            /\ UNCHANGED requests
       ELSE /\ requests' = Append(requests, request("versions", fSlug, cursor, ""))
            /\ fPc' = "slugWait"
            /\ UNCHANGED << fbResult, fResult >>
    /\ UNCHANGED << fSlug, fHashId, pages, responses, allVersions, cursor,
                    resolvedChatId, isFirstPage >>
    /\ UNCHANGED << zipVars, selVars, callVars, pipeVars >>

\* lines 22-39: the slug response arrives
fetchSlugResponse ==
    /\ fPc = "slugWait"
    /\ \E status \in Statuses :
        /\ responses' = Append(responses, status)
        /\ IF status = 0
           THEN /\ fbResult' = failure("fetch rejected", 0, << >>)
                /\ fResult' = failure("fetch rejected", 0, << >>)
                /\ fPc' = "done"
                /\ UNCHANGED << requests, allVersions, cursor, resolvedChatId, isFirstPage >>
           ELSE IF ok(status)
           THEN /\ fbResult' = [state |-> "ok", resolvedChatId |-> fSlug, made |-> Len(requests)]
                /\ handlePage(serverBody(requests[Len(requests)]), fSlug)
                /\ UNCHANGED requests
           ELSE IF shouldFallback(status)
           THEN /\ requests' = Append(requests,
                                 request("versions", fallbackId(fSlug, fHashId), cursor, ""))
                /\ fPc' = "hashWait"
                /\ UNCHANGED << fbResult, fResult, allVersions, cursor,
                                resolvedChatId, isFirstPage >>
           ELSE /\ fbResult' = failure("Request failed with status", status, fSlug)
                /\ fResult' = failure("Request failed with status", status, fSlug)
                /\ fPc' = "done"
                /\ UNCHANGED << requests, allVersions, cursor, resolvedChatId, isFirstPage >>
    /\ UNCHANGED << fSlug, fHashId, pages >>
    /\ UNCHANGED << zipVars, selVars, callVars, pipeVars >>

\* lines 30-36: the hashId response arrives
fetchHashResponse ==
    /\ fPc = "hashWait"
    /\ \E status \in Statuses :
        /\ responses' = Append(responses, status)
        /\ IF status = 0
           THEN /\ fbResult' = failure("fetch rejected", 0, << >>)
                /\ fResult' = failure("fetch rejected", 0, << >>)
                /\ fPc' = "done"
                /\ UNCHANGED << allVersions, cursor, resolvedChatId, isFirstPage >>
           ELSE IF ok(status)
           THEN /\ fbResult' = [state |-> "ok", resolvedChatId |-> fHashId, made |-> Len(requests)]
                /\ handlePage(serverBody(requests[Len(requests)]), fHashId)
           ELSE /\ fbResult' = failure("Request failed with status", status, fHashId)
                /\ fResult' = failure("Request failed with status", status, fHashId)
                /\ fPc' = "done"
                /\ UNCHANGED << allVersions, cursor, resolvedChatId, isFirstPage >>
    /\ UNCHANGED << fSlug, fHashId, pages, requests >>
    /\ UNCHANGED << zipVars, selVars, callVars, pipeVars >>

\* line 59: if (cursor) params.set("cursor", cursor)
cursorParam_mutant(cur) == 0

cursorParam(cur) == cur

\* lines 82-86: a later page is requested with the resolved identifier
fetchPageRequest ==
    /\ fPc = "page"
    /\ Len(requests) < MaxRequests
    /\ requests' = Append(requests,
                          request("versions", resolvedChatId, cursorParam(cursor), ""))
    /\ fPc' = "pageWait"
    /\ UNCHANGED << fSlug, fHashId, pages, responses, allVersions, cursor,
                    resolvedChatId, isFirstPage, fbResult, fResult >>
    /\ UNCHANGED << zipVars, selVars, callVars, pipeVars >>

\* line 88: if (!response.ok)
pageFailed_mutant(status) == ~ok(status) /\ status # 404

pageFailed(status) == ~ok(status)

\* lines 86-99: the response to a later page arrives
fetchPageResponse ==
    /\ fPc = "pageWait"
    /\ \E status \in Statuses :
        /\ responses' = Append(responses, status)
        /\ IF status = 0
           THEN /\ fResult' = failure("fetch rejected", 0, << >>)
                /\ fPc' = "done"
                /\ UNCHANGED << allVersions, cursor, resolvedChatId, isFirstPage >>
           ELSE IF pageFailed(status)
           THEN /\ fResult' = failure("Pagination request failed with status", status, << >>)
                /\ fPc' = "done"
                /\ UNCHANGED << allVersions, cursor, resolvedChatId, isFirstPage >>
           ELSE handlePage(serverBody(requests[Len(requests)]), resolvedChatId)
    /\ UNCHANGED << fSlug, fHashId, pages, requests, fbResult >>
    /\ UNCHANGED << zipVars, selVars, callVars, pipeVars >>

\* ------------------------------------------------------------------------
\* Identity resolution: fetch-v0.mjs, isHashSegment, extractChatId, resolveSlug
\* ------------------------------------------------------------------------
lowerLetters == << "a", "b", "c", "d", "e", "f", "g", "h", "i", "j", "k", "l", "m",
                   "n", "o", "p", "q", "r", "s", "t", "u", "v", "w", "x", "y", "z" >>
upperLetters == << "A", "B", "C", "D", "E", "F", "G", "H", "I", "J", "K", "L", "M",
                   "N", "O", "P", "Q", "R", "S", "T", "U", "V", "W", "X", "Y", "Z" >>
Lower == { lowerLetters[i] : i \in 1..26 }
Upper == { upperLetters[i] : i \in 1..26 }
\* white space that String.prototype.trim removes, the byte-order mark
\* U+FEFF among it
bom == "uFEFF"
Whitespace == { " ", "\t", "\n", "\r", bom }

\* String.prototype.toLowerCase
toLowerCase(s) ==
    [i \in 1..Len(s) |->
        IF s[i] \in Upper
        THEN lowerLetters[CHOOSE k \in 1..26 : upperLetters[k] = s[i]]
        ELSE s[i]]

\* String.prototype.toUpperCase
toUpperCase(s) ==
    [i \in 1..Len(s) |->
        IF s[i] \in Lower
        THEN upperLetters[CHOOSE k \in 1..26 : lowerLetters[k] = s[i]]
        ELSE s[i]]

\* String.prototype.trim
trim(s) ==
    LET kept == { i \in 1..Len(s) : s[i] \notin Whitespace }
    IN  IF kept = {} THEN << >>
        ELSE SubSeq(s, CHOOSE i \in kept : \A j \in kept : i <= j,
                       CHOOSE i \in kept : \A j \in kept : i >= j)

\* lines 55-57: /^[a-zA-Z0-9]{6,}$/ and not /^[a-z]+$/ and not /^\d+$/
isHashSegment_mutant(segment) ==
    /\ Len(segment) >= 6
    /\ \A i \in 1..Len(segment) : segment[i] \in Lower \cup Upper \cup Digits
    /\ ~(\A i \in 1..Len(segment) : segment[i] \in Lower)

isHashSegment(segment) ==
    /\ Len(segment) >= 6
    /\ \A i \in 1..Len(segment) : segment[i] \in Lower \cup Upper \cup Digits
    /\ ~(\A i \in 1..Len(segment) : segment[i] \in Lower)
    /\ ~(\A i \in 1..Len(segment) : segment[i] \in Digits)

\* line 92: parts.slice(0, -1).join("-")
featureNameOf_mutant(parts) == parts[1]

featureNameOf(parts) == join(SubSeq(parts, 1, Len(parts) - 1), "-")

\* lines 84-97
resolveSlug(slug) ==
    LET parts == split(slug, "-")
        last == parts[Len(parts)]
    IN  IF Len(parts) > 1 /\ isHashSegment(last)
        THEN [slug |-> slug, hashId |-> last, featureName |-> featureNameOf(parts)]
        ELSE [slug |-> slug, hashId |-> slug, featureName |-> slug]

\* line 68: /^[a-z][a-z0-9+.-]*:\/\//i
isUrl(s) ==
    \E k \in 1..Len(s) :
        /\ s[1] \in Lower \cup Upper
        /\ \A i \in 2..k : s[i] \in Lower \cup Upper \cup Digits \cup { "+", ".", "-" }
        /\ k + 3 <= Len(s)
        /\ SubSeq(s, k + 1, k + 3) = << ":", "/", "/" >>

\* line 70: /^https?:\/\//i
isHttpUrl(s) ==
    \/ startsWith(toLowerCase(s), << "h", "t", "t", "p", ":", "/", "/" >>)
    \/ startsWith(toLowerCase(s), << "h", "t", "t", "p", "s", ":", "/", "/" >>)

SlugChars == Lower \cup Upper \cup Digits \cup { "_", "-" }

\* where /v0\.(?:app|dev)\/chat\/([a-zA-Z0-9_-]+)/ can match in s: the
\* positions of the first character of the captured group
v0MatchStarts(s) ==
    { i \in 1..Len(s) :
        /\ i > 12
        /\ SubSeq(s, i - 12, i - 1) \in { << "v", "0", ".", "a", "p", "p", "/", "c", "h", "a", "t", "/" >>,
                                          << "v", "0", ".", "d", "e", "v", "/", "c", "h", "a", "t", "/" >> }
        /\ s[i] \in SlugChars }

\* the group captured by the leftmost match, taken greedily
v0MatchGroup(s) ==
    LET i == minOf(v0MatchStarts(s))
        stop == { j \in i..Len(s) : \A k \in i..j : s[k] \in SlugChars }
    IN  SubSeq(s, i, CHOOSE j \in stop : \A k \in stop : k <= j)

\* lines 59-82: the identity, or the error thrown
extractChatId(input) ==
    IF input \in { nullString, undefinedString }
    THEN failure("extractChatId: input must be a string", 0, << >>)
    ELSE LET trimmed == trim(input)
         IN  IF trimmed = << >>
             THEN [slug |-> << >>, hashId |-> << >>, featureName |-> << >>]
             ELSE IF isUrl(trimmed)
             THEN IF ~isHttpUrl(trimmed)
                  THEN failure("extractChatId: unsupported URL protocol", 0, trimmed)
                  ELSE IF v0MatchStarts(trimmed) = {}
                  THEN failure("extractChatId: unsupported URL host", 0, trimmed)
                  ELSE resolveSlug(v0MatchGroup(trimmed))
             ELSE resolveSlug(trimmed)

isFailure(r) == "state" \in DOMAIN r /\ r.state = "error"

\* ------------------------------------------------------------------------
\* file-filter.mjs and placeholder detection
\* ------------------------------------------------------------------------
\* fetchCustomFileList line 30:
\* (data.files ?? []).map((f) => f.name ?? f.path).filter((name) => name != null)
namesOfFiles_mutant(data) ==
    LET files == IF data.hasFiles THEN data.files ELSE << >>
        mapped == [i \in 1..Len(files) |->
                      IF files[i].name \notin { nullString, << >> }
                      THEN files[i].name ELSE files[i].path]
        notNull(name) == name # nullString
    IN  SelectSeq(mapped, notNull)

namesOfFiles(data) ==
    LET files == IF data.hasFiles THEN data.files ELSE << >>
        mapped == [i \in 1..Len(files) |->
                      IF files[i].name # nullString THEN files[i].name ELSE files[i].path]
        notNull(name) == name # nullString
    IN  SelectSeq(mapped, notNull)

\* a customFileNames argument that is null, or undefined
nullNames == << << "null", "array" >> >>
undefinedNames == << << "undefined", "array" >> >>

\* line 41: customFileNames == null
isNullish_mutant(x) == x = nullNames

isNullish(x) == x = nullNames \/ x = undefinedNames

\* line 49: customSet.has(file.name)
has_mutant(customSet, name) == toLowerCase(name) \in { toLowerCase(n) : n \in customSet }

has(customSet, name) == name \in customSet

\* classifyFiles lines 40-57: the partition, or the error thrown
classifyFiles_mutant(allFiles, names) ==
    IF isNullish(names)
    THEN failure("classifyFiles: customFileNames must be an array", 0, << >>)
    ELSE
    LET customSet == { names[i] : i \in 1..Len(names) }
        isCustom(f) == has(customSet, f.name)
        mark(q, flag) == [i \in 1..Len(q) |->
                             [name |-> q[i].name, size |-> q[i].size,
                              content |-> q[i].content, isCustom |-> flag]]
    IN  [custom |-> mark(SelectSeq(allFiles, isCustom), TRUE),
         default |-> mark(allFiles, FALSE)]

classifyFiles(allFiles, names) ==
    IF isNullish(names)
    THEN failure("classifyFiles: customFileNames must be an array", 0, << >>)
    ELSE
    LET customSet == { names[i] : i \in 1..Len(names) }
        isCustom(f) == has(customSet, f.name)
        isDefault(f) == ~has(customSet, f.name)
        mark(q, flag) == [i \in 1..Len(q) |->
                             [name |-> q[i].name, size |-> q[i].size,
                              content |-> q[i].content, isCustom |-> flag]]
    IN  [custom |-> mark(SelectSeq(allFiles, isCustom), TRUE),
         default |-> mark(SelectSeq(allFiles, isDefault), FALSE)]

\* the files and names of direct classifyFiles calls
n_A == << "A" >>
n_d_bs_a == << "d", "\\", "a" >>
n_b == << "b" >>

ClassifyFiles == { [name |-> n, size |-> Len(n), content |-> n] : n \in { n_a, n_A, n_d_a } }

ClassifyNames == { n_a, n_A, n_d_a, n_d_bs_a, n_b }

\* classifyFiles lines 44-54: what the call leaves in the objects it was
\* given; the loop spreads each file into a new object and assigns nothing
\* in the file, in allFiles or in customFileNames
inputsAfter_mutant(a) ==
    IF isNullish(a.customFileNames) THEN a
    ELSE [allFiles |-> [i \in 1..Len(a.allFiles) |->
                           [name |-> a.allFiles[i].name, size |-> a.allFiles[i].size,
                            content |-> a.allFiles[i].content,
                            isCustom |-> \E k \in 1..Len(a.customFileNames) :
                                            a.customFileNames[k] = a.allFiles[i].name]],
          customFileNames |-> a.customFileNames]

inputsAfter(a) == a

\* classifyFiles called on its own, and called once more with the same
\* objects
callClassifyFiles ==
    /\ callee = "classifyFiles"
    /\ cPc \in { "start", "done" }
    /\ cResult' = classifyFiles(args.allFiles, args.customFileNames)
    /\ args' = inputsAfter(args)
    /\ cPc' = IF cPc = "start" THEN "done" ELSE "again"
    /\ UNCHANGED callee
    /\ UNCHANGED << zipVars, selVars, fetchVars, pipeVars >>

\* a content that is a number
notText == << "number" >>

\* typeof content === "string" (and content != null)
isString(content) == content \notin { nullString, undefinedString, notText }

\* adaptation-rules.md line 268
PLACEHOLDER_STRINGS == { << "g", "e", "n", "e", "r", "a", "t", "i", "n", "g" >> }

isPlaceholderContent_mutant(content) ==
    IF ~isString(content) THEN TRUE
    ELSE LET trimmed == trim(content)
         IN  trimmed = << >> \/ \E m \in PLACEHOLDER_STRINGS : includes(toLowerCase(trimmed), m)

\* adaptation-rules.md lines 270-275
isPlaceholderContent(content) ==
    IF ~isString(content) THEN TRUE
    ELSE LET trimmed == trim(content)
         IN  trimmed = << >> \/ toLowerCase(trimmed) \in PLACEHOLDER_STRINGS

\* the predicates handed to validateCustomFiles, by name: the standard one,
\* () => true and () => false
Predicates == { "isPlaceholderContent", "always", "never" }

\* line 71: isPlaceholderFn(file.content)
isPlaceholderFn(fn, content) ==
    IF fn = "isPlaceholderContent" THEN isPlaceholderContent(content)
    ELSE fn = "always"

\* line 89: content.trim() is a TypeError when content is not a string
deriveReasonThrows(content) == ~isString(content)

\* deriveReason lines 88-96
deriveReason(content) ==
    IF toUpperCase(trim(content)) = << "G", "E", "N", "E", "R", "A", "T", "I", "N", "G" >>
    THEN "File content is a GENERATING placeholder"
    ELSE IF trim(content) = << >> THEN "File content is empty"
    ELSE "File content appears to be a placeholder"

RECURSIVE validateFrom(_, _, _)
\* validateCustomFiles lines 70-77: the loop; a throw of deriveReason ends it
validateFrom(customFiles, fn, acc) ==
    IF Len(customFiles) = 0 THEN acc
    ELSE LET file == Head(customFiles)
         IN  IF isPlaceholderFn(fn, file.content)
             THEN IF deriveReasonThrows(file.content)
                  THEN failure("TypeError: content.trim", 0, file.name)
                  ELSE validateFrom(Tail(customFiles), fn,
                           [valid |-> acc.valid,
                            warnings |-> Append(acc.warnings,
                                [name |-> file.name, reason |-> deriveReason(file.content)])])
             ELSE validateFrom(Tail(customFiles), fn,
                      [valid |-> Append(acc.valid, file), warnings |-> acc.warnings])

\* validateCustomFiles lines 66-80: { valid, warnings }, or the error thrown
validateCustomFiles(customFiles, fn) ==
    validateFrom(customFiles, fn, [valid |-> << >>, warnings |-> << >>])

\* ------------------------------------------------------------------------
\* fetch-v0.mjs: formatVersionList, findNextOlderCompleted, runPipeline
\* ------------------------------------------------------------------------
\* line 112: const index = total - i, for the version at 0-based position i
lineIndex_mutant(total, i) == i + 1

lineIndex(total, i) == total - i

\* lines 106-118: the header and one line per version, in the order of
\* lines.push; lines.join("\n") puts each on a line of its own
formatVersionList(hashId, versions, bestVersion) ==
    [header |-> [chat |-> hashId, total |-> Len(versions)],
     lines |-> [i \in 1..Len(versions) |->
                   [index |-> lineIndex(Len(versions), i - 1),
                    id |-> versions[i].id,
                    status |-> versions[i].status,
                    createdAt |-> versions[i].createdAt,
                    selected |-> bestVersion # NULL /\ versions[i].id = bestVersion.id]]]

\* lines 123-135
findNextOlderCompleted_mutant(versions, selectedId) ==
    LET after == { j \in 1..Len(versions) :
                      /\ versions[j].id # selectedId
                      /\ versions[j].status = "completed" }
    IN  IF after = {} THEN NULL ELSE versions[minOf(after)]

findNextOlderCompleted(versions, selectedId) ==
    LET at == { i \in 1..Len(versions) : versions[i].id = selectedId }
        after == { j \in 1..Len(versions) :
                      /\ versions[j].id # selectedId
                      /\ versions[j].status = "completed"
                      /\ \E i \in at : i < j }
    IN  IF after = {} THEN NULL ELSE versions[minOf(after)]

\* lines 152-156
hasPathTraversal_mutant(name) ==
    includes(name, << ".", "." >>) \/ includes(name, << "/" >>)

hasPathTraversal(name) ==
    \/ includes(name, << ".", "." >>)
    \/ includes(name, << "/" >>)
    \/ includes(name, << "\\" >>)

\* line 149: customName || derivedFeatureName
orElse(customName, derived) ==
    IF customName = nullString \/ customName = << >> THEN derived ELSE customName

\* line 183: if (versionId); the option is "" when no version is pinned
isPinned_mutant(versionId) == FALSE

isPinned(versionId) == versionId # ""

\* line 187: if (!bestVersion)
noVersion_mutant(bestVersion) == FALSE

noVersion(bestVersion) == bestVersion = NULL

\* line 164: if (listVersions)
isListMode_mutant(opts) == FALSE

isListMode(opts) == opts.listVersions

\* lines 202-238: the manifest write is reached when none of the statements
\* before it has thrown
reachesManifestWrite_mutant(fault) == fault \in { "none", "validateCustomFiles" }

reachesManifestWrite(fault) == fault = "none"

\* path.join of an absolute base and further parts: empty parts are
\* skipped and the result is normalized
pathJoin(parts) ==
    LET nonEmpty(x) == Len(x) > 0
    IN  resolve1(join(SelectSeq(parts, nonEmpty), "/"))

\* inputs of the runs
in_url == << "h", "t", "t", "p", "s", ":", "/", "/", "v", "0", ".", "a", "p", "p", "/", "c", "h", "a", "t", "/", "a", "b", "-", "X", "y", "1", "2", "z", "Q" >>
in_bare == << "a", "b", "c" >>
in_ftp == << "f", "t", "p", ":", "/", "/", "v", "0", ".", "a", "p", "p", "/", "c", "h", "a", "t", "/", "a", "b" >>
in_host == << "h", "t", "t", "p", "s", ":", "/", "/", "x", ".", "i", "o", "/", "c", "h", "a", "t", "/", "a", "b" >>
in_dots == << ".", ".", "/", "e" >>

InputArgs == { in_url, in_bare, in_ftp, in_host, in_dots, nullString }

CustomNames == { nullString, << "m", "y" >>, << ".", ".", "/", "e", "v" >>, << "a", "/", "b" >>, << "a", "\\", "b" >> }

\* versionId option: "" when no version is pinned
VersionIdOptions == { "", "ver_002", "ver_999" }

\* a whitespace-only input, which extractChatId resolves to empty names
in_blank == << " ", " " >>

Options ==
    [inputArg : InputArgs, customName : CustomNames, outputDir : { cwd },
     versionId : VersionIdOptions, listVersions : BOOLEAN]
    \cup [inputArg : { in_blank }, customName : { nullString }, outputDir : { cwd },
          versionId : VersionIdOptions, listVersions : BOOLEAN]
    \cup [inputArg : { in_url }, customName : { n_dot }, outputDir : { cwd },
          versionId : VersionIdOptions, listVersions : BOOLEAN]

\* the servers of the pipeline runs: distinct versions in any order, on one
\* page or cut in two pages at any place
PipelineServers ==
    LET onePage(q) == << [versions |-> q, isArray |-> TRUE, cursor |-> 0] >>
        twoPages(q, k) == << [versions |-> SubSeq(q, 1, k), isArray |-> TRUE, cursor |-> 1],
                             [versions |-> SubSeq(q, k + 1, Len(q)), isArray |-> TRUE,
                              cursor |-> 0] >>
    IN  UNION { { onePage(q) } \cup { twoPages(q, k) : k \in 1..(Len(q) - 1) } :
                    q \in distinctSeqs(ServerVersions, MaxRunVersions) }

\* the payloads of the download endpoint
d_hi == << "h", "i" >>
d_generating == << " ", "G", "E", "N", "E", "R", "A", "T", "I", "N", "G" >>

DownloadBodies ==
    { [entries |-> << >>],
      [entries |-> << [name |-> n_a, data |-> d_hi],
                      [name |-> n_d_a, data |-> d_generating] >>],
      [entries |-> << [name |-> n_a, data |-> d_hi],
                      [name |-> n_up_up_e, data |-> d_hi] >>],
      [entries |-> << [name |-> n_d_a, data |-> d_generating],
                      [name |-> n_a, data |-> << >>] >>] }

\* the bodies of the custom-file-list endpoint
FileListBodies ==
    { [hasFiles |-> FALSE, files |-> << >>],
      [hasFiles |-> TRUE, files |-> << [name |-> n_a, path |-> nullString] >>],
      [hasFiles |-> TRUE,
       files |-> << [name |-> nullString, path |-> n_d_a],
                    [name |-> nullString, path |-> nullString],
                    [name |-> n_d_a, path |-> n_a] >>],
      [hasFiles |-> TRUE,
       files |-> << [name |-> n_a, path |-> nullString],
                    [name |-> n_d_a, path |-> nullString] >>] }

\* what a collaborator of deps can do besides returning: throw
Faults == { "none", "classifyFiles", "validateCustomFiles" }

\* lines 145-158: resolve the identity and check the feature name
pResolveIdentity ==
    /\ pPc = "start"
    /\ LET id == extractChatId(options.inputArg)
       IN  IF isFailure(id)
           THEN /\ pResult' = id
                /\ pPc' = "done"
                /\ UNCHANGED << identity, effectiveFeatureName >>
           ELSE /\ identity' = id
                /\ effectiveFeatureName' = orElse(options.customName, id.featureName)
                /\ IF hasPathTraversal(orElse(options.customName, id.featureName))
                   THEN /\ pResult' = failure("Invalid feature name: contains path traversal characters",
                                              0, orElse(options.customName, id.featureName))
                        /\ pPc' = "done"
                   ELSE /\ pPc' = "fetchVersionList"
                        /\ UNCHANGED pResult
    /\ UNCHANGED << options, calls, selectedVersionId, designDir, extractedFiles,
                    customFileNames, classified, validationResult, manifest, logged >>
    /\ UNCHANGED << zipVars, selVars, callVars, fetchVars >>

\* line 161: deps.fetchVersionList(slug, hashId, apiKey) is called; the
\* server holds some list of pages
pCallFetchVersionList ==
    /\ pPc = "fetchVersionList"
    /\ calls' = Append(calls, "fetchVersionList")
    /\ pPc' = "enumerating"
    /\ fSlug' = identity.slug
    /\ fHashId' = identity.hashId
    /\ pages' \in PipelineServers
    /\ fPc' = "start"
    /\ UNCHANGED << requests, responses, allVersions, cursor, resolvedChatId,
                    isFirstPage, fbResult, fResult >>
    /\ UNCHANGED << options, identity, effectiveFeatureName, selectedVersionId, designDir,
                    extractedFiles, customFileNames, classified, validationResult,
                    manifest, logged, pResult >>
    /\ UNCHANGED << zipVars, selVars, callVars >>

\* line 161: fetchVersionList threw, which ends the run
pEnumerationFailed ==
    /\ pPc = "enumerating"
    /\ fPc = "done"
    /\ fResult.state = "error"
    /\ pResult' = fResult
    /\ pPc' = "done"
    /\ UNCHANGED << options, calls, identity, effectiveFeatureName, selectedVersionId,
                    designDir, extractedFiles, customFileNames, classified,
                    validationResult, manifest, logged >>
    /\ UNCHANGED << zipVars, selVars, callVars, fetchVars >>

\* line 171: versionId: bestVersion ? bestVersion.id : null ("" for null);
\* the options are in scope but not read
listVersionId_mutant(bestVersion, opts) ==
    IF opts.versionId # "" THEN opts.versionId
    ELSE IF bestVersion # NULL THEN bestVersion.id ELSE ""

listVersionId(bestVersion, opts) == IF bestVersion # NULL THEN bestVersion.id ELSE ""

\* lines 164-179: list mode returns after the enumeration
pListVersions ==
    /\ pPc = "enumerating"
    /\ fPc = "done"
    /\ fResult.state = "ok"
    /\ isListMode(options)
    /\ LET bestVersion == selectBestVersion(fResult.versions)
       IN  /\ calls' = Append(calls, "selectBestVersion")
           /\ pResult' = [state |-> "ok",
                          featureName |-> effectiveFeatureName,
                          designDir |-> << >>,
                          versionId |-> listVersionId(bestVersion, options),
                          resolvedChatId |-> fResult.resolvedChatId,
                          totalFiles |-> 0,
                          customFileCount |-> 0,
                          defaultFileCount |-> 0,
                          warnings |-> << >>,
                          hasListVersionsOutput |-> TRUE,
                          listVersionsOutput |->
                              formatVersionList(identity.hashId, fResult.versions, bestVersion)]
    /\ pPc' = "done"
    /\ UNCHANGED << options, identity, effectiveFeatureName, selectedVersionId, designDir,
                    extractedFiles, customFileNames, classified, validationResult,
                    manifest, logged >>
    /\ UNCHANGED << zipVars, selVars, callVars, fetchVars >>

\* lines 182-198 and downloadVersionZip lines 17-23: select the version,
\* create the output directory and ask for the archive
pSelectAndDownload ==
    /\ pPc = "enumerating"
    /\ fPc = "done"
    /\ fResult.state = "ok"
    /\ ~isListMode(options)
    /\ LET pinned == isPinned(options.versionId)
           bestVersion == IF pinned THEN NULL ELSE selectBestVersion(fResult.versions)
           selected == IF pinned THEN options.versionId
                       ELSE IF bestVersion # NULL THEN bestVersion.id ELSE undefined
           dir == pathJoin(<< options.outputDir, << "d", "e", "s", "i", "g", "n", "s" >>,
                              effectiveFeatureName, << "v", "0", "-", "s", "o", "u", "r", "c", "e" >> >>)
           selectCalls == IF pinned THEN calls ELSE Append(calls, "selectBestVersion")
       IN  IF ~pinned /\ noVersion(bestVersion)
           THEN /\ calls' = selectCalls
                /\ pResult' = failure("No suitable version found", 0, << >>)
                /\ pPc' = "done"
                /\ UNCHANGED << selectedVersionId, designDir, fsDirs, requests >>
           ELSE \E mkdirThrows \in BOOLEAN :
                /\ selectedVersionId' = selected
                /\ designDir' = dir
                /\ IF mkdirThrows
                   THEN /\ calls' = Append(selectCalls, "mkdirSync")
                        /\ pResult' = failure("mkdirSync failed", 0, dir)
                        /\ pPc' = "done"
                        /\ UNCHANGED << fsDirs, requests >>
                   ELSE /\ calls' = selectCalls \o << "mkdirSync", "downloadAndExtract" >>
                        /\ fsDirs' = mkdirSync(fsDirs, dir)
                        /\ requests' = Append(requests,
                               request("download", fResult.resolvedChatId, 0, selected))
                        /\ pPc' = "downloading"
                        /\ UNCHANGED pResult
    /\ UNCHANGED << options, identity, effectiveFeatureName, extractedFiles, customFileNames,
                    classified, validationResult, manifest, logged >>
    /\ UNCHANGED << zipBuffer, targetDir, zPc, zEntries, zIdx, zFiles, zResult,
                    fsFiles, zWrites, zMkdirs >>
    /\ UNCHANGED << fSlug, fHashId, pages, fPc, responses, allVersions, cursor,
                    resolvedChatId, isFirstPage, fbResult, fResult >>
    /\ UNCHANGED << selVars, callVars, callVars >>

\* downloadVersionZip lines 26-33: the message for a response that is not ok
downloadErrorMessage_mutant(status) ==
    IF status = 401 THEN "Unauthorized: failed to download zip (status"
    ELSE "Failed to download zip: HTTP"

downloadErrorMessage(status) ==
    IF status = 401 THEN "Unauthorized: failed to download zip (status"
    ELSE IF status = 404 THEN "Not found: version or chat not found (status"
    ELSE "Failed to download zip: HTTP"

\* the characters of the three message texts of lines 28, 31 and 33, up to
\* the status
messageText(msg) ==
    IF msg = "Unauthorized: failed to download zip (status"
    THEN << "U", "n", "a", "u", "t", "h", "o", "r", "i", "z", "e", "d", ":", " ",
            "f", "a", "i", "l", "e", "d", " ", "t", "o", " ",
            "d", "o", "w", "n", "l", "o", "a", "d", " ", "z", "i", "p", " ",
            "(", "s", "t", "a", "t", "u", "s" >>
    ELSE IF msg = "Not found: version or chat not found (status"
    THEN << "N", "o", "t", " ", "f", "o", "u", "n", "d", ":", " ",
            "v", "e", "r", "s", "i", "o", "n", " ", "o", "r", " ", "c", "h", "a", "t", " ",
            "n", "o", "t", " ", "f", "o", "u", "n", "d", " ", "(", "s", "t", "a", "t", "u", "s" >>
    ELSE IF msg = "Failed to download zip: HTTP"
    THEN << "F", "a", "i", "l", "e", "d", " ", "t", "o", " ",
            "d", "o", "w", "n", "l", "o", "a", "d", " ", "z", "i", "p", ":", " ",
            "H", "T", "T", "P" >>
    ELSE << >>

\* downloadVersionZip lines 25-36 and downloadAndExtract line 78: the
\* download response arrives and the extraction starts
pDownloadResponse ==
    /\ pPc = "downloading"
    /\ \E status \in Statuses :
        /\ responses' = Append(responses, status)
        /\ IF ok(status)
           THEN /\ \E body \in DownloadBodies \cup { NULL } : zipBuffer' = body
                /\ targetDir' = designDir
                /\ zPc' = "start"
                /\ pPc' = "extracting"
                /\ UNCHANGED pResult
           ELSE /\ pResult' = failure(
                       IF status = 0 THEN "fetch rejected"
                       ELSE downloadErrorMessage(status), status, << >>)
                /\ pPc' = "done"
                /\ UNCHANGED << zipBuffer, targetDir, zPc >>
    /\ UNCHANGED << options, calls, identity, effectiveFeatureName, selectedVersionId,
                    designDir, extractedFiles, customFileNames, classified,
                    validationResult, manifest, logged >>
    /\ UNCHANGED << zEntries, zIdx, zFiles, zResult, fsDirs, fsFiles, zWrites, zMkdirs >>
    /\ UNCHANGED << fSlug, fHashId, pages, fPc, requests, allVersions, cursor,
                    resolvedChatId, isFirstPage, fbResult, fResult >>
    /\ UNCHANGED << selVars, callVars, callVars >>

\* line 198: the extraction threw, which ends the run
pExtractionFailed ==
    /\ pPc = "extracting"
    /\ zPc = "done"
    /\ zResult # "ok"
    /\ pResult' = failure(zResult, 0, << >>)
    /\ pPc' = "done"
    /\ UNCHANGED << options, calls, identity, effectiveFeatureName, selectedVersionId,
                    designDir, extractedFiles, customFileNames, classified,
                    validationResult, manifest, logged >>
    /\ UNCHANGED << zipVars, selVars, callVars, fetchVars >>

\* line 201: the chat id handed to deps.fetchCustomFileList
fileListChatId_mutant(id, resolved) == id.hashId

fileListChatId(id, resolved) == resolved

\* lines 198-201 and fetchCustomFileList lines 13-23: the files are
\* extracted and the custom file list is asked for
pFetchCustomFileList ==
    /\ pPc = "extracting"
    /\ zPc = "done"
    /\ zResult = "ok"
    /\ extractedFiles' = zFiles
    /\ calls' = Append(calls, "fetchCustomFileList")
    /\ requests' = Append(requests,
           request("files", fileListChatId(identity, fResult.resolvedChatId), 0,
                   selectedVersionId))
    /\ pPc' = "customFiles"
    /\ UNCHANGED << options, identity, effectiveFeatureName, selectedVersionId, designDir,
                    customFileNames, classified, validationResult, manifest, logged,
                    pResult >>
    /\ UNCHANGED << fSlug, fHashId, pages, fPc, responses, allVersions, cursor,
                    resolvedChatId, isFirstPage, fbResult, fResult >>
    /\ UNCHANGED << zipVars, selVars, callVars >>

\* line 230: warnings: validationResult.warnings
manifestWarnings_mutant(val) == << >>

manifestWarnings(val) == val.warnings

\* the "https://v0.app/chat/" of line 225
chatUrl == << "h", "t", "t", "p", "s", ":", "/", "/", "v", "0", ".", "a", "p", "p", "/", "c", "h", "a", "t", "/" >>

\* lines 220-236: the manifest (fetchedAt, the time of the run, left out)
buildManifest_mutant(chatId, featureName, versionId, versions, cls, val, files, names) ==
    LET customSet == { names[i] : i \in 1..Len(names) }
    IN  [chatId |-> chatId,
         featureName |-> featureName,
         sourceUrl |-> chatUrl \o chatId,
         versionId |-> versionId,
         versionSelectedFrom |-> Len(versions),
         customFileCount |-> Cardinality(customSet),
         defaultFileCount |-> Len(cls.default),
         warnings |-> manifestWarnings(val),
         files |-> [i \in 1..Len(files) |->
                       [name |-> files[i].name,
                        size |-> files[i].size,
                        isCustom |-> files[i].name \in customSet]]]

buildManifest(chatId, featureName, versionId, versions, cls, val, files, names) ==
    LET customSet == { names[i] : i \in 1..Len(names) }
    IN  [chatId |-> chatId,
         featureName |-> featureName,
         sourceUrl |-> chatUrl \o chatId,
         versionId |-> versionId,
         versionSelectedFrom |-> Len(versions),
         customFileCount |-> Len(cls.custom),
         defaultFileCount |-> Len(cls.default),
         warnings |-> manifestWarnings(val),
         files |-> [i \in 1..Len(files) |->
                       [name |-> files[i].name,
                        size |-> files[i].size,
                        isCustom |-> files[i].name \in customSet]]]

\* the console.error lines of lines 208-217
warningLines(warnings, versions, selectedId) ==
    LET olderVersion == findNextOlderCompleted(versions, selectedId)
    IN  IF Len(warnings) = 0 THEN << >>
        ELSE [i \in 1..Len(warnings) |->
                 [kind |-> "Warning", name |-> warnings[i].name, id |-> ""]]
             \o (IF olderVersion # NULL
                 THEN << [kind |-> "Try", name |-> << >>, id |-> olderVersion.id] >>
                 ELSE << >>)

\* fetchCustomFileList lines 25-30 and runPipeline lines 201-254: the
\* custom file list arrives; classify, validate, warn, write the manifest
\* and return
pFinish ==
    /\ pPc = "customFiles"
    /\ \E status \in Statuses, body \in FileListBodies, fault \in Faults :
        /\ responses' = Append(responses, status)
        /\ pPc' = "done"
        /\ IF ~ok(status)
           THEN /\ pResult' = failure(IF status = 0 THEN "fetch rejected"
                                      ELSE "HTTP error fetching custom file list",
                                      status, << >>)
                /\ UNCHANGED << calls, customFileNames, classified, validationResult,
                                manifest, logged, fsFiles >>
           ELSE LET names == namesOfFiles(body)
                    cls == classifyFiles(extractedFiles, names)
                    val == validateCustomFiles(cls.custom, "isPlaceholderContent")
                    written == buildManifest(fResult.resolvedChatId, effectiveFeatureName,
                                             selectedVersionId, fResult.versions, cls, val,
                                             extractedFiles, names)
                IN  /\ customFileNames' = names
                    /\ IF fault = "classifyFiles"
                       THEN /\ calls' = Append(calls, "classifyFiles")
                            /\ pResult' = failure("classifyFiles threw", 0, << >>)
                            /\ UNCHANGED << classified, validationResult, logged >>
                       ELSE IF fault = "validateCustomFiles"
                       THEN /\ calls' = calls \o << "classifyFiles", "validateCustomFiles" >>
                            /\ classified' = cls
                            /\ pResult' = failure("validateCustomFiles threw", 0, << >>)
                            /\ UNCHANGED << validationResult, logged >>
                       ELSE /\ calls' = calls \o << "classifyFiles", "validateCustomFiles",
                                                   "writeFileSync" >>
                            /\ classified' = cls
                            /\ validationResult' = val
                            /\ logged' = warningLines(val.warnings, fResult.versions,
                                                      selectedVersionId)
                            /\ pResult' = [state |-> "ok",
                                           featureName |-> effectiveFeatureName,
                                           designDir |-> designDir,
                                           versionId |-> selectedVersionId,
                                           resolvedChatId |-> fResult.resolvedChatId,
                                           totalFiles |-> Len(extractedFiles),
                                           customFileCount |-> Len(cls.custom),
                                           defaultFileCount |-> Len(cls.default),
                                           warnings |-> val.warnings,
                                           hasListVersionsOutput |-> FALSE]
                    /\ IF reachesManifestWrite(fault)
                       THEN /\ manifest' = written
                            /\ fsFiles' = writeFileSync(fsFiles,
                                   pathJoin(<< designDir, << "m", "a", "n", "i", "f", "e", "s", "t", ".", "j", "s", "o", "n" >> >>), written)
                       ELSE UNCHANGED << manifest, fsFiles >>
    /\ UNCHANGED << options, identity, effectiveFeatureName, selectedVersionId, designDir,
                    extractedFiles >>
    /\ UNCHANGED << zipBuffer, targetDir, zPc, zEntries, zIdx, zFiles, zResult,
                    fsDirs, zWrites, zMkdirs >>
    /\ UNCHANGED << fSlug, fHashId, pages, fPc, requests, allVersions, cursor,
                    resolvedChatId, isFirstPage, fbResult, fResult >>
    /\ UNCHANGED << selVars, callVars, callVars >>

\* ------------------------------------------------------------------------
\* validateCustomFiles and isPlaceholderContent called on their own
\* ------------------------------------------------------------------------
d_generating_now == << "g", "e", "n", "e", "r", "a", "t", "i", "n", "g", " ", "n", "o", "w" >>

\* the contents of the files handed to validateCustomFiles
ValidateContents ==
    { nullString, undefinedString, notText, << >>, d_generating, d_hi, d_generating_now }

ValidateFiles == { [name |-> n, content |-> c] : n \in { n_a, n_b }, c \in ValidateContents }

callValidateCustomFiles ==
    /\ callee = "validateCustomFiles"
    /\ cPc = "start"
    /\ cResult' = validateCustomFiles(args.customFiles, args.isPlaceholderFn)
    /\ cPc' = "done"
    /\ UNCHANGED << callee, args >>
    /\ UNCHANGED << zipVars, selVars, fetchVars, pipeVars >>

\* the contents handed to isPlaceholderContent: text made of a lead, a body
\* and a tail, or no text at all
ContentLeads == { << >>, << " " >>, << "\n", "\t" >>, << bom >>, << "x" >> }
ContentBodies ==
    { << >>,
      << "g", "e", "n", "e", "r", "a", "t", "i", "n", "g" >>,
      << "G", "E", "N", "E", "R", "A", "T", "I", "N", "G" >>,
      << "G", "e", "n", "e", "r", "a", "t", "i", "n", "g" >>,
      << "g", "e", "n", "e", "r", "a", "t", "i", "n" >>,
      << "g", "e", "n", "e", "r", "a", "t", "i", "n", "g", "g" >>,
      << "0" >>,
      d_hi }
ContentTails == { << >>, << " " >>, << "\r", "\n" >>, << "!" >>, << " ", "n", "o", "w" >> }

Contents ==
    { a \o b \o c : a \in ContentLeads, b \in ContentBodies, c \in ContentTails }
        \cup { nullString, undefinedString, notText }

callIsPlaceholderContent ==
    /\ callee = "isPlaceholderContent"
    /\ cPc = "start"
    /\ cResult' = [state |-> "returned", value |-> isPlaceholderContent(args.content)]
    /\ cPc' = "done"
    /\ UNCHANGED << callee, args >>
    /\ UNCHANGED << zipVars, selVars, fetchVars, pipeVars >>

\* ------------------------------------------------------------------------
\* fetchCustomFileList called on its own
\* ------------------------------------------------------------------------
\* the entries of a files array: a name that is a string, the empty string
\* or absent, and a path that is a string or absent
FileEntries == [name : { n_a, << >>, nullString }, path : { n_d_a, nullString }]

\* the bodies of the responses: no files field, or a files array
FileListResponses ==
    { [hasFiles |-> FALSE, files |-> << >>] }
        \cup { [hasFiles |-> TRUE, files |-> q] : q \in seqsUpTo(FileEntries, MaxNames) }

\* fetchCustomFileList lines 12-31: the names, or the error thrown
callFetchCustomFileList ==
    /\ callee = "fetchCustomFileList"
    /\ cPc = "start"
    /\ cResult' =
           IF args.resolvedChatId = nullString
           THEN failure("fetchCustomFileList: resolvedChatId must be a string", 0, << >>)
           ELSE IF ~ok(args.status)
           THEN failure(IF args.status = 0 THEN "fetch rejected"
                        ELSE "HTTP error fetching custom file list", args.status, << >>)
           ELSE [state |-> "returned", value |-> namesOfFiles(args.body)]
    /\ cPc' = "done"
    /\ UNCHANGED << callee, args >>
    /\ UNCHANGED << zipVars, selVars, fetchVars, pipeVars >>

\* ------------------------------------------------------------------------
\* fetch-v0.mjs: parseArgs
\* ------------------------------------------------------------------------
t_output_dir == << "-", "-", "o", "u", "t", "p", "u", "t", "-", "d", "i", "r" >>
t_version == << "-", "-", "v", "e", "r", "s", "i", "o", "n" >>
t_list_versions == << "-", "-", "l", "i", "s", "t", "-", "v", "e", "r", "s", "i", "o", "n", "s" >>
t_v1 == << "v", "1" >>
t_v2 == << "v", "2" >>
t_x == << "-", "x" >>

\* the tokens of a command line, after "node" and the script
Tokens == { t_output_dir, t_version, t_list_versions, << >>, t_v1, t_v2, t_x }

\* line 39: next !== undefined && next !== "" && !next.startsWith("--");
\* next is undefinedString when --version is the last token
isVersionValue_mutant(next) == next # undefinedString /\ next # << >>

isVersionValue(next) ==
    next # undefinedString /\ next # << >> /\ ~startsWith(next, << "-", "-" >>)

\* !inputArg, !customName, and the outputDir of outputDir || process.cwd()
isFalsy(x) == x = nullString \/ x = << >>

\* lines 26-31: the locals before the loop; i is 1-based, at is the
\* positions the loop has looked at as args[i]
parseStart ==
    /\ callee = "parseArgs"
    /\ cPc = "start"
    /\ cResult' = [state |-> "running", i |-> 1, at |-> << >>,
                   inputArg |-> nullString, customName |-> nullString,
                   outputDir |-> nullString, versionId |-> nullString,
                   listVersions |-> FALSE]
    /\ cPc' = "loop"
    /\ UNCHANGED << callee, args >>
    /\ UNCHANGED << zipVars, selVars, fetchVars, pipeVars >>

\* lines 33-50: one iteration of the loop
parseIteration ==
    /\ callee = "parseArgs"
    /\ cPc = "loop"
    /\ cResult.i <= Len(args.argv)
    /\ LET i == cResult.i
           tok == args.argv[i]
           next == IF i + 1 <= Len(args.argv) THEN args.argv[i + 1] ELSE undefinedString
           seen == [cResult EXCEPT !.at = Append(@, i)]
       IN  cResult' =
               IF tok = t_output_dir /\ i + 1 <= Len(args.argv)
               THEN [seen EXCEPT !.outputDir = next, !.i = i + 2]
               ELSE IF tok = t_version
               THEN IF isVersionValue(next)
                    THEN [seen EXCEPT !.versionId = next, !.i = i + 2]
                    ELSE [seen EXCEPT !.i = i + 1]
               ELSE IF tok = t_list_versions
               THEN [seen EXCEPT !.listVersions = TRUE, !.i = i + 1]
               ELSE IF isFalsy(cResult.inputArg)
               THEN [seen EXCEPT !.inputArg = tok, !.i = i + 1]
               ELSE IF isFalsy(cResult.customName)
               THEN [seen EXCEPT !.customName = tok, !.i = i + 1]
               ELSE [seen EXCEPT !.i = i + 1]
    /\ UNCHANGED << callee, args, cPc >>
    /\ UNCHANGED << zipVars, selVars, fetchVars, pipeVars >>

\* line 52: the loop is over; outputDir || process.cwd()
parseReturn ==
    /\ callee = "parseArgs"
    /\ cPc = "loop"
    /\ cResult.i > Len(args.argv)
    /\ cResult' = [cResult EXCEPT !.state = "returned",
                                  !.outputDir = IF isFalsy(@) THEN cwd ELSE @]
    /\ cPc' = "done"
    /\ UNCHANGED << callee, args >>
    /\ UNCHANGED << zipVars, selVars, fetchVars, pipeVars >>

\* ------------------------------------------------------------------------
\* extractChatId called on its own
\* ------------------------------------------------------------------------
\* the segments slugs are made of: plain words, hash-like segments, digits,
\* a segment too short, one with an underscore and the empty one
Segments ==
    { << "a", "b" >>,
      << "X", "y", "1", "2", "z", "Q" >>,
      << "a", "b", "c", "d", "e", "f" >>,
      << "1", "2", "3", "4", "5", "6" >>,
      << "A", "b", "1", "c", "d" >>,
      << "a", "1", "b", "2", "c", "3" >>,
      << "X", "y", "_", "2", "z", "Q" >>,
      << >> }

\* the slugs of at most n segments
slugsUpTo(n) == { join(q, "-") : q \in seqsUpTo(Segments, n) \ { << >> } }

\* what comes before the slug in a URL, and what comes after it
UrlFronts ==
    { << "h", "t", "t", "p", "s", ":", "/", "/", "v", "0", ".", "a", "p", "p", "/", "c", "h", "a", "t", "/" >>,
      << "h", "t", "t", "p", ":", "/", "/", "v", "0", ".", "d", "e", "v", "/", "c", "h", "a", "t", "/" >>,
      << " ", "H", "T", "T", "P", "S", ":", "/", "/", "v", "0", ".", "a", "p", "p", "/", "c", "h", "a", "t", "/" >>,
      << "f", "t", "p", ":", "/", "/", "v", "0", ".", "a", "p", "p", "/", "c", "h", "a", "t", "/" >>,
      << "h", "t", "t", "p", "s", ":", "/", "/", "x", ".", "i", "o", "/", "c", "h", "a", "t", "/" >>,
      << "h", "t", "t", "p", "s", ":", "/", "/", "x", ".", "i", "o", "/", "v", "0", ".", "a", "p", "p", "/", "c", "h", "a", "t", "/" >>,
      << "h", "t", "t", "p", "s", ":", "/", "/", "n", "o", "v", "0", ".", "a", "p", "p", "/", "c", "h", "a", "t", "/" >>,
      << "h", "t", "t", "p", "s", ":", "/", "/", "v", "0", ".", "a", "p", "p", "/", "t", "/" >>,
      << "h", "t", "t", "p", "s", ":", "/", "/", "v", "0", ".", "a", "p", "p", "/" >> }

UrlBacks == { << >>, << "/" >>, << "?", "q", "=", "1" >>, << "#", "s" >> }

Inputs ==
    slugsUpTo(MaxSegments)
        \cup { << " " >> \o slug \o << "\n" >> : slug \in slugsUpTo(MaxSegments) }
        \cup { front \o slug \o back :
                   front \in UrlFronts, slug \in slugsUpTo(MaxUrlSegments), back \in UrlBacks }
        \cup { nullString, undefinedString }

callExtractChatId ==
    /\ callee = "extractChatId"
    /\ cPc = "start"
    /\ cResult' = extractChatId(args.input)
    /\ cPc' = "done"
    /\ UNCHANGED << callee, args >>
    /\ UNCHANGED << zipVars, selVars, fetchVars, pipeVars >>

\* ------------------------------------------------------------------------
\* Idle components
\* ------------------------------------------------------------------------
zipIdle ==
    /\ zipBuffer = NULL
    /\ targetDir = << >>
    /\ zPc = "idle"
    /\ zEntries = << >>
    /\ zIdx = 1
    /\ zFiles = << >>
    /\ zResult = "none"
    /\ fsDirs = ancestorsAndSelf(cwd)
    /\ fsFiles = << >>
    /\ zWrites = << >>
    /\ zMkdirs = {}

selIdle ==
    /\ sVersions = << >>
    /\ sPc = "idle"
    /\ sResult = NULL

fetchIdle ==
    /\ fSlug = nullString
    /\ fHashId = nullString
    /\ pages = << >>
    /\ fPc = "idle"
    /\ requests = << >>
    /\ responses = << >>
    /\ allVersions = << >>
    /\ cursor = 0
    /\ resolvedChatId = nullString
    /\ isFirstPage = TRUE
    /\ fbResult = pending
    /\ fResult = pending

pipeIdle ==
    /\ options = NULL
    /\ pPc = "idle"
    /\ calls = << >>
    /\ identity = pending
    /\ effectiveFeatureName = nullString
    /\ selectedVersionId = ""
    /\ designDir = << >>
    /\ extractedFiles = << >>
    /\ customFileNames = << >>
    /\ classified = pending
    /\ validationResult = pending
    /\ manifest = NULL
    /\ logged = << >>
    /\ pResult = pending

callIdle ==
    /\ callee = "none"
    /\ args = NULL
    /\ cPc = "idle"
    /\ cResult = pending

\* extractZipToDirectory called on its own with any archive and target
\* directory; the target directory exists beforehand or not
InitZip ==
    /\ (zipBuffer = NULL \/ zipBuffer \in Archives)
    /\ targetDir \in TargetDirs
    /\ zPc = "start"
    /\ zEntries = << >>
    /\ zIdx = 1
    /\ zFiles = << >>
    /\ zResult = "none"
    /\ fsDirs \in { ancestorsAndSelf(cwd), ancestorsAndSelf(resolve(targetDir, << >>)) }
    /\ fsFiles = << >>
    /\ zWrites = << >>
    /\ zMkdirs = {}
    /\ selIdle /\ fetchIdle /\ pipeIdle /\ callIdle

NextZip == extractStart \/ extractEntry \/ extractReturn

SpecZip == InitZip /\ [][NextZip]_vars

\* selectBestVersion called on its own with any versions argument
InitSelect ==
    /\ (sVersions = nullVersions \/ sVersions \in seqsUpTo(VersionsOrNull, MaxList))
    /\ sPc = "start"
    /\ sResult = NULL
    /\ zipIdle /\ fetchIdle /\ pipeIdle /\ callIdle

NextSelect == callSelectBestVersion

\* extractChatId called on its own with any input
InitIdentity ==
    /\ callee = "extractChatId"
    /\ \E x \in Inputs : args = [input |-> x]
    /\ cPc = "start"
    /\ cResult = pending
    /\ zipIdle /\ selIdle /\ fetchIdle /\ pipeIdle

NextIdentity == callExtractChatId

SpecIdentity == InitIdentity /\ [][NextIdentity]_vars

\* validateCustomFiles called on its own with any list of files and any of
\* the predicates
InitValidate ==
    /\ callee = "validateCustomFiles"
    /\ \E q \in seqsUpTo(ValidateFiles, MaxFiles), fn \in Predicates :
           args = [customFiles |-> q, isPlaceholderFn |-> fn]
    /\ cPc = "start"
    /\ cResult = pending
    /\ zipIdle /\ selIdle /\ fetchIdle /\ pipeIdle

NextValidate == callValidateCustomFiles

SpecValidate == InitValidate /\ [][NextValidate]_vars

\* isPlaceholderContent called on its own with any content
InitPlaceholder ==
    /\ callee = "isPlaceholderContent"
    /\ \E c \in Contents : args = [content |-> c]
    /\ cPc = "start"
    /\ cResult = pending
    /\ zipIdle /\ selIdle /\ fetchIdle /\ pipeIdle

NextPlaceholder == callIsPlaceholderContent

\* parseArgs called with any command line of at most MaxArgs tokens
InitParse ==
    /\ callee = "parseArgs"
    /\ \E q \in seqsUpTo(Tokens, MaxArgs) : args = [argv |-> q]
    /\ cPc = "start"
    /\ cResult = pending
    /\ zipIdle /\ selIdle /\ fetchIdle /\ pipeIdle

NextParse == parseStart \/ parseIteration \/ parseReturn

SpecParse == InitParse /\ [][NextParse]_vars

\* fetchCustomFileList called on its own with any chat id and any response
InitFileList ==
    /\ callee = "fetchCustomFileList"
    /\ \E id \in { in_bare, nullString }, status \in Statuses, body \in FileListResponses :
           args = [resolvedChatId |-> id, versionId |-> "ver_002",
                   status |-> status, body |-> body]
    /\ cPc = "start"
    /\ cResult = pending
    /\ zipIdle /\ selIdle /\ fetchIdle /\ pipeIdle

NextFileList == callFetchCustomFileList

SpecFileList == InitFileList /\ [][NextFileList]_vars

SpecPlaceholder == InitPlaceholder /\ [][NextPlaceholder]_vars

\* classifyFiles called on its own with any file list and any custom-name
\* list, null and undefined included
InitClassify ==
    /\ callee = "classifyFiles"
    /\ \E f \in seqsUpTo(ClassifyFiles, MaxFiles),
          n \in seqsUpTo(ClassifyNames, MaxNames) \cup { nullNames, undefinedNames } :
           args = [allFiles |-> f, customFileNames |-> n]
    /\ cPc = "start"
    /\ cResult = pending
    /\ zipIdle /\ selIdle /\ fetchIdle /\ pipeIdle

NextClassify == callClassifyFiles

SpecClassify == InitClassify /\ [][NextClassify]_vars


SpecSelect == InitSelect /\ [][NextSelect]_vars

\* the identifiers of a direct fetchVersionList call
id_s == << "s" >>
id_h == << "h" >>

\* fetchVersionList called on its own against any server
InitFetch ==
    /\ \E a \in { << id_s, id_h >>, << id_s, id_s >>, << nullString, id_h >> } :
           fSlug = a[1] /\ fHashId = a[2]
    /\ pages \in Servers
    /\ fPc = "start"
    /\ requests = << >>
    /\ responses = << >>
    /\ allVersions = << >>
    /\ cursor = 0
    /\ resolvedChatId = nullString
    /\ isFirstPage = TRUE
    /\ fbResult = pending
    /\ fResult = pending
    /\ zipIdle /\ selIdle /\ pipeIdle /\ callIdle

NextFetch ==
    \/ fetchSlugRequest
    \/ fetchSlugResponse
    \/ fetchHashResponse
    \/ fetchPageRequest
    \/ fetchPageResponse

SpecFetch == InitFetch /\ [][NextFetch]_vars

\* fetchVersionList against the servers above and against servers that
\* answer every page with a cursor; the requests of a run that does not
\* end are followed up to MaxRequests
InitFetchLoop ==
    /\ \E a \in { << id_s, id_h >>, << id_s, id_s >>, << nullString, id_h >> } :
           fSlug = a[1] /\ fHashId = a[2]
    /\ pages \in Servers \cup CyclicServers
    /\ fPc = "start"
    /\ requests = << >>
    /\ responses = << >>
    /\ allVersions = << >>
    /\ cursor = 0
    /\ resolvedChatId = nullString
    /\ isFirstPage = TRUE
    /\ fbResult = pending
    /\ fResult = pending
    /\ zipIdle /\ selIdle /\ pipeIdle /\ callIdle

SpecFetchLoop == InitFetchLoop /\ [][NextFetch]_vars

\* runPipeline called with any options, the production collaborators wired in
Init ==
    /\ options \in Options
    /\ pPc = "start"
    /\ calls = << >>
    /\ identity = pending
    /\ effectiveFeatureName = nullString
    /\ selectedVersionId = ""
    /\ designDir = << >>
    /\ extractedFiles = << >>
    /\ customFileNames = << >>
    /\ classified = pending
    /\ validationResult = pending
    /\ manifest = NULL
    /\ logged = << >>
    /\ pResult = pending
    /\ zipIdle /\ selIdle /\ fetchIdle /\ callIdle

Next ==
    \/ pResolveIdentity
    \/ pCallFetchVersionList
    \/ fetchSlugRequest
    \/ fetchSlugResponse
    \/ fetchHashResponse
    \/ fetchPageRequest
    \/ fetchPageResponse
    \/ pEnumerationFailed
    \/ pListVersions
    \/ pSelectAndDownload
    \/ pDownloadResponse
    \/ extractStart
    \/ extractEntry
    \/ extractReturn
    \/ pExtractionFailed
    \/ pFetchCustomFileList
    \/ pFinish

Spec == Init /\ [][Next]_vars


\* ------------------------------------------------------------------------
\* Properties
\* ------------------------------------------------------------------------
\* the number of elements of q that are equal to x
count(q, x) == Cardinality({ i \in 1..Len(q) : q[i] = x })

RECURSIVE concatPages(_)
\* the versions arrays of all pages, one after the other
concatPages(ps) ==
    IF Len(ps) = 0 THEN << >>
    ELSE (IF Head(ps).isArray THEN Head(ps).versions ELSE << >>) \o concatPages(Tail(ps))

\* C1 (stated as claimed): extractZipToDirectory writes files only strictly
\* inside the resolved target directory, and creates no directory outside it
\* (the target directory itself and the directories leading to it excepted)
C1_WritesStayInsideTarget ==
    zPc # "idle" =>
        LET target == resolve(targetDir, << >>)
        IN  /\ \A i \in 1..Len(zWrites) : strictlyInside(zWrites[i], target)
            /\ \A d \in zMkdirs : strictlyInside(d, target) \/ d \in ancestorsAndSelf(target)

\* C4: selectBestVersion returns the lowest-index non-null element whose
\* status is exactly "completed"; failing that the lowest-index non-null
\* element; failing that (empty, absent or all-null list) null
C4_SelectBestVersion ==
    sPc = "done" =>
        LET vs == IF sVersions = nullVersions THEN << >> ELSE sVersions
            completedAt == { i \in 1..Len(vs) : vs[i] # NULL /\ vs[i].status = "completed" }
            nonNullAt == { i \in 1..Len(vs) : vs[i] # NULL }
        IN  IF completedAt # {} THEN sResult = vs[minOf(completedAt)]
            ELSE IF nonNullAt # {} THEN sResult = vs[minOf(nonNullAt)]
            ELSE sResult = NULL

C4_Witness ==
    /\ sPc = "done"
    /\ sVersions = << NULL, ver_004, ver_001 >>
    /\ sResult = ver_001

\* the two ways fetchWithChatIdFallback can succeed
slugAnswered == Len(responses) >= 1 /\ ok(responses[1])

hashAnswered ==
    /\ Len(responses) >= 2
    /\ responses[1] = 404
    /\ requests[2].id = fHashId
    /\ ok(responses[2])

resolvedIs(id) == fbResult.state = "ok" /\ fbResult.resolvedChatId = id

firstRequestIsSlug ==
    Len(requests) >= 1 => (requests[1].id = fSlug /\ requests[1].cursor = 0)

\* C6 (stated as claimed): the first request is made with slug;
\* resolvedChatId is slug iff the first request returned 2xx (one request);
\* resolvedChatId is hashId iff the first request returned 404 and the
\* second, made with hashId, returned 2xx (two requests)
C6_ResolvedIffAsClaimed ==
    (fPc # "idle" /\ fbResult.state # "pending") =>
        /\ firstRequestIsSlug
        /\ resolvedIs(fSlug) <=> (slugAnswered /\ fbResult.made = 1)
        /\ resolvedIs(fHashId) <=> (hashAnswered /\ fbResult.made = 2)

\* C6 (amended): the first request is made with slug; the call succeeds
\* exactly on the two paths, with slug after one request when the first
\* response is 2xx and with hashId after two requests when the first is 404
\* and the second, made with hashId, is 2xx; the two converses hold whenever
\* slug and hashId differ
C6_ResolvedByPath ==
    /\ fPc # "idle" => firstRequestIsSlug
    /\ (fPc # "idle" /\ fbResult.state # "pending") =>
        /\ slugAnswered => (resolvedIs(fSlug) /\ fbResult.made = 1)
        /\ hashAnswered => (resolvedIs(fHashId) /\ fbResult.made = 2)
        /\ fbResult.state = "ok" => (slugAnswered \/ hashAnswered)
        /\ fSlug # fHashId =>
            /\ resolvedIs(fSlug) <=> slugAnswered
            /\ resolvedIs(fHashId) <=> hashAnswered

C6_Witness ==
    /\ fbResult.state = "ok"
    /\ fSlug # fHashId
    /\ fbResult.resolvedChatId = fHashId
    /\ fbResult.made = 2
    /\ responses[1] = 404

\* C7: a non-2xx, non-404 answer to the slug request fails the call after
\* one request; a 404 followed by any non-2xx answer to the hashId request
\* fails it after two; the fallback never makes a third request
C7_FailsWithoutFurtherFallback ==
    /\ (fPc # "idle" /\ fbResult.state = "pending") => Len(requests) <= 2
    /\ (fPc # "idle" /\ fbResult.state = "ok") => fbResult.made <= 2
    /\ (Len(responses) >= 1 /\ ~ok(responses[1]) /\ responses[1] # 404) =>
           (fbResult.state = "error" /\ fResult.state = "error" /\ Len(requests) = 1)
    /\ (Len(responses) >= 2 /\ responses[1] = 404 /\ ~ok(responses[2])) =>
           (fbResult.state = "error" /\ fResult.state = "error" /\ Len(requests) = 2)

C7_Witness ==
    /\ responses = << 404, 404 >>
    /\ fbResult.state = "error"
    /\ Len(requests) = 2

\* the requests that were answered with 2xx, in the order they were made
RECURSIVE okRequests(_)
okRequests(n) ==
    IF n = 0 THEN << >>
    ELSE IF ok(responses[n]) THEN Append(okRequests(n - 1), requests[n])
    ELSE okRequests(n - 1)

\* C8: against a server of N pages, a fetchVersionList that returns has made
\* one request per page with the resolved identifier (N requests, N + 1 when
\* the slug request returned 404) and returns every version of every page,
\* none dropped and none duplicated
C8_OneRequestPerPage ==
    (fPc = "done" /\ fResult.state = "ok") =>
        LET N == Len(pages)
            served == okRequests(Len(responses))
        IN  /\ Len(requests) = N + (IF responses[1] = 404 THEN 1 ELSE 0)
            /\ Len(served) = N
            /\ \A k \in 1..N : /\ served[k].cursor = k - 1
                               /\ served[k].id = fResult.resolvedChatId
            /\ Len(fResult.versions) = Len(concatPages(pages))
            /\ \A v \in ServerVersions :
                   count(fResult.versions, v) = count(concatPages(pages), v)

C8_Witness ==
    /\ fPc = "done"
    /\ fResult.state = "ok"
    /\ Len(pages) = 2
    /\ responses[1] = 404
    /\ Len(requests) = 3
    /\ Len(fResult.versions) = 4

\* the elements of q created at instant t, in the order of q
createdAtInstant(q, t) ==
    LET atT(v) == Date_getTime(v.createdAt) = t
    IN  SelectSeq(q, atT)

Instants == { Date_getTime(v.createdAt) : v \in ServerVersions }

\* C9: the returned versions are the concatenation of the pages' versions
\* arrays reordered from the newest instant to the oldest, versions of one
\* instant keeping the order in which the server delivered them
C9_NewestFirstStable ==
    (fPc = "done" /\ fResult.state = "ok") =>
        LET res == fResult.versions
            delivered == concatPages(pages)
        IN  /\ \A i, j \in 1..Len(res) :
                   i < j => Date_getTime(res[i].createdAt) >= Date_getTime(res[j].createdAt)
            /\ \A t \in Instants : createdAtInstant(res, t) = createdAtInstant(delivered, t)

C9_Witness ==
    /\ fPc = "done"
    /\ fResult.state = "ok"
    /\ Len(pages) = 2
    /\ pages[1].versions = << ver_001, ver_003 >>
    /\ pages[2].versions = << ver_002, ver_004 >>
    /\ fResult.versions = << ver_004, ver_003, ver_002, ver_001 >>

\* a name with "..", "/" or "\" in it
containsTraversal(name) ==
    \E i \in 1..Len(name) :
        \/ name[i] \in { "/", "\\" }
        \/ (i < Len(name) /\ name[i] = "." /\ name[i + 1] = ".")

\* the caller gave a custom name
customNameGiven == options.customName # nullString /\ options.customName # << >>

\* the feature name of the run as the claim defines it: customName when
\* given, otherwise the featureName derived from inputArg (if it has one)
claimedFeatureName ==
    IF customNameGiven THEN options.customName
    ELSE IF isFailure(extractChatId(options.inputArg)) THEN << >>
    ELSE extractChatId(options.inputArg).featureName

nothingInvoked ==
    /\ calls = << >>
    /\ requests = << >>
    /\ fsFiles = << >>
    /\ fsDirs = ancestorsAndSelf(cwd)
    /\ manifest = NULL

isTraversalError(r) ==
    /\ isFailure(r)
    /\ r.msg = "Invalid feature name: contains path traversal characters"

\* C2 (stated as claimed): whenever the effective feature name (customName
\* when given, otherwise the derived featureName) contains "..", "/" or "\",
\* runPipeline throws the path-traversal error with no collaborator invoked
C2_RejectsTraversalAsClaimed ==
    (pPc = "done" /\ containsTraversal(claimedFeatureName)) =>
        (isTraversalError(pResult) /\ nothingInvoked)

\* C2 (amended): whenever extractChatId resolves inputArg and the effective
\* feature name contains "..", "/" or "\", runPipeline throws the
\* path-traversal error with no collaborator invoked; when extractChatId
\* throws, its error is the one thrown, again with no collaborator invoked
C2_RejectsTraversal ==
    (pPc = "done" /\ containsTraversal(claimedFeatureName)) =>
        /\ nothingInvoked
        /\ isFailure(pResult)
        /\ ~isFailure(extractChatId(options.inputArg)) => isTraversalError(pResult)

C2_Witness ==
    /\ pPc = "done"
    /\ options.inputArg = in_url
    /\ options.customName = << "a", "\\", "b" >>
    /\ isTraversalError(pResult)
    /\ calls = << >>

manifestPath == pathJoin(<< designDir, << "m", "a", "n", "i", "f", "e", "s", "t", ".", "j", "s", "o", "n" >> >>)

C5_DownloadsNewestCompleted ==
    \A k \in 1..Len(requests) :
        (requests[k].endpoint = "download" /\ options.versionId = "") =>
            LET all == concatPages(pages)
                completedAt == { i \in 1..Len(all) : all[i].status = "completed" }
                eligible == IF completedAt # {} THEN completedAt ELSE 1..Len(all)
            IN  \E i \in eligible :
                    /\ all[i].id = requests[k].versionId
                    /\ \A j \in eligible :
                           Date_getTime(all[j].createdAt) <= Date_getTime(all[i].createdAt)

C5_Witness ==
    /\ options.versionId = ""
    /\ Len(pages) = 2
    /\ pages[1].versions = << ver_001, ver_002 >>
    /\ pages[2].versions = << ver_004 >>
    /\ Len(requests) = 3
    /\ requests[3].endpoint = "download"
    /\ requests[3].versionId = "ver_002"

\* C10: in list mode runPipeline invokes fetchVersionList and
\* selectBestVersion only, touches no file or directory, asks only the
\* versions endpoint, and returns listVersionsOutput once the enumeration
\* has returned
C10_ListModeOnlyEnumerates ==
    (pPc # "idle" /\ options.listVersions) =>
        /\ \A i \in 1..Len(calls) : calls[i] \in { "fetchVersionList", "selectBestVersion" }
        /\ \A k \in 1..Len(requests) : requests[k].endpoint = "versions"
        /\ manifest = NULL
        /\ fsFiles = << >>
        /\ fsDirs = ancestorsAndSelf(cwd)
        /\ zPc = "idle"
        /\ (pPc = "done" /\ fResult.state = "ok") =>
               /\ pResult.state = "ok"
               /\ pResult.hasListVersionsOutput
               /\ Len(pResult.listVersionsOutput.lines) = Len(fResult.versions)
               /\ calls = << "fetchVersionList", "selectBestVersion" >>
        /\ (pPc = "done" /\ pResult.state = "ok") => fResult.state = "ok"

C10_Witness ==
    /\ pPc = "done"
    /\ options.listVersions
    /\ pResult.state = "ok"
    /\ pResult.hasListVersionsOutput
    /\ Len(pResult.listVersionsOutput.lines) = 3
    /\ calls = << "fetchVersionList", "selectBestVersion" >>

\* C11: the list-mode output has one header and one line per version, in
\* list order; the line of the version at 0-based position i carries index
\* T - i (T on the first line, 1 on the last) and is marked selected if and
\* only if its id is the id of the version selectBestVersion returns
C11_ListOutputIndexedAndMarked ==
    (pPc = "done" /\ pResult.state = "ok" /\ pResult.hasListVersionsOutput) =>
        LET out == pResult.listVersionsOutput
            vs == fResult.versions
            T == Len(vs)
            best == selectBestVersion(vs)
        IN  /\ out.header.total = T
            /\ Len(out.lines) = T
            /\ \A k \in 1..T :
                   /\ out.lines[k].id = vs[k].id
                   /\ out.lines[k].status = vs[k].status
                   /\ out.lines[k].createdAt = vs[k].createdAt
                   /\ out.lines[k].index = T - (k - 1)
                   /\ out.lines[k].selected <=> (best # NULL /\ vs[k].id = best.id)
            /\ T > 0 => (out.lines[1].index = T /\ out.lines[T].index = 1)

C11_Witness ==
    /\ pPc = "done"
    /\ pResult.state = "ok"
    /\ pResult.hasListVersionsOutput
    /\ fResult.versions = << ver_004, ver_003, ver_002 >>
    /\ pResult.listVersionsOutput.lines[1].index = 3
    /\ ~pResult.listVersionsOutput.lines[1].selected
    /\ pResult.listVersionsOutput.lines[3].index = 1
    /\ pResult.listVersionsOutput.lines[3].selected

\* the calls of deps made so far that have the given name
callsOf(name) == { i \in 1..Len(calls) : calls[i] = name }

\* C12: in normal mode with a pinned versionId, selectBestVersion is never
\* invoked and the pinned id is the one sent to the download and custom
\* file list endpoints and written in the manifest and the result, whatever
\* the enumerated list holds
C12_PinnedVersionVerbatim ==
    (pPc # "idle" /\ options.versionId # "" /\ ~options.listVersions) =>
        /\ callsOf("selectBestVersion") = {}
        /\ \A k \in 1..Len(requests) :
               requests[k].endpoint \in { "download", "files" } =>
                   requests[k].versionId = options.versionId
        /\ callsOf("downloadAndExtract") # {} =>
               \E k \in 1..Len(requests) : requests[k].endpoint = "download"
        /\ callsOf("fetchCustomFileList") # {} =>
               \E k \in 1..Len(requests) : requests[k].endpoint = "files"
        /\ manifest # NULL => manifest.versionId = options.versionId
        /\ (pPc = "done" /\ pResult.state = "ok") => pResult.versionId = options.versionId
        /\ (pPc = "done" /\ pResult.state = "ok") => manifest # NULL

C12_Witness ==
    /\ pPc = "done"
    /\ ~options.listVersions
    /\ options.versionId = "ver_999"
    /\ fResult.state = "ok"
    /\ fResult.versions = << >>
    /\ pResult.state = "ok"
    /\ pResult.versionId = "ver_999"
    /\ manifest # NULL
    /\ manifest.versionId = "ver_999"
    /\ \E k \in 1..Len(requests) :
           requests[k].endpoint = "download" /\ requests[k].versionId = "ver_999"

\* C13: in normal mode without a pinned versionId, when selectBestVersion
\* yields no version the run fails and mkdirSync, downloadAndExtract,
\* fetchCustomFileList and writeFileSync are never called
C13_NoVersionFailsBeforeAnyWrite ==
    (/\ pPc # "idle"
     /\ ~options.listVersions
     /\ options.versionId = ""
     /\ fPc = "done"
     /\ fResult.state = "ok"
     /\ selectBestVersion(fResult.versions) = NULL) =>
        /\ pPc \in { "enumerating", "done" }
        /\ \A n \in { "mkdirSync", "downloadAndExtract", "fetchCustomFileList",
                      "writeFileSync" } : callsOf(n) = {}
        /\ manifest = NULL
        /\ fsFiles = << >>
        /\ fsDirs = ancestorsAndSelf(cwd)
        /\ \A k \in 1..Len(requests) : requests[k].endpoint = "versions"
        /\ pPc = "done" =>
               /\ pResult.state = "error"
               /\ pResult.msg = "No suitable version found"
               /\ calls = << "fetchVersionList", "selectBestVersion" >>

C13_Witness ==
    /\ pPc = "done"
    /\ ~options.listVersions
    /\ options.versionId = ""
    /\ fResult.state = "ok"
    /\ fResult.versions = << >>
    /\ pResult.state = "error"
    /\ pResult.msg = "No suitable version found"
    /\ calls = << "fetchVersionList", "selectBestVersion" >>

\* a classified file without its isCustom flag
unflagged(f) == [name |-> f.name, size |-> f.size, content |-> f.content]

\* q and r are the same list of files
sameFiles(q, r) == Len(q) = Len(r) /\ \A i \in 1..Len(q) : q[i] = r[i]

\* C14: with a non-null custom-name list, custom holds the files whose name
\* is an entry of the list (exact, case-sensitive, however often repeated)
\* and default holds the others, each file once, in input order and flagged
\* isCustom true resp. false, so that |custom| + |default| = |allFiles|
C14_ClassifyPartitions ==
    (/\ callee = "classifyFiles"
     /\ cPc = "done"
     /\ args.customFileNames \notin { nullNames, undefinedNames }) =>
        LET names == args.customFileNames
            listed(f) == \E i \in 1..Len(names) : names[i] = f.name
            notListed(f) == ~listed(f)
        IN  /\ ~isFailure(cResult)
            /\ Len(cResult.custom) + Len(cResult.default) = Len(args.allFiles)
            /\ \A i \in 1..Len(cResult.custom) : cResult.custom[i].isCustom
            /\ \A i \in 1..Len(cResult.default) : ~cResult.default[i].isCustom
            /\ sameFiles([i \in 1..Len(cResult.custom) |-> unflagged(cResult.custom[i])],
                         SelectSeq(args.allFiles, listed))
            /\ sameFiles([i \in 1..Len(cResult.default) |-> unflagged(cResult.default[i])],
                         SelectSeq(args.allFiles, notListed))

C14_Witness ==
    /\ callee = "classifyFiles"
    /\ cPc = "done"
    /\ args.customFileNames = << n_a, n_a, n_d_bs_a >>
    /\ Len(args.allFiles) = 3
    /\ args.allFiles[1].name = n_A
    /\ args.allFiles[2].name = n_a
    /\ args.allFiles[3].name = n_d_a
    /\ Len(cResult.custom) = 1
    /\ cResult.custom[1].name = n_a
    /\ Len(cResult.default) = 2
    /\ cResult.default[1].name = n_A
    /\ cResult.default[2].name = n_d_a

\* C15: classifyFiles throws and yields no partition when the custom-name
\* list is null or undefined; with the empty list it returns with every
\* file in default and none in custom
C15_ClassifyAbsentVersusEmpty ==
    (callee = "classifyFiles" /\ cPc = "done") =>
        /\ args.customFileNames \in { nullNames, undefinedNames } =>
               /\ isFailure(cResult)
               /\ DOMAIN cResult \cap { "custom", "default" } = {}
        /\ args.customFileNames = << >> =>
               /\ ~isFailure(cResult)
               /\ Len(cResult.custom) = 0
               /\ Len(cResult.default) = Len(args.allFiles)
               /\ \A i \in 1..Len(args.allFiles) :
                      unflagged(cResult.default[i]) = args.allFiles[i]

C15_Witness ==
    /\ callee = "classifyFiles"
    /\ cPc = "done"
    /\ args.customFileNames = undefinedNames
    /\ Len(args.allFiles) = 2
    /\ isFailure(cResult)

\* C16: validateCustomFiles returns, with one warning { name, reason } for
\* each file on which the predicate is true and every other file in valid,
\* both in input order, whatever the content of the files (null, undefined
\* and non-text content included)
C16_ValidateWarnsOncePerPlaceholder ==
    (callee = "validateCustomFiles" /\ cPc = "done") =>
        LET fn == args.isPlaceholderFn
            flagged(f) == isPlaceholderFn(fn, f.content)
            kept(f) == ~isPlaceholderFn(fn, f.content)
            expectedWarnings == SelectSeq(args.customFiles, flagged)
            expectedValid == SelectSeq(args.customFiles, kept)
        IN  /\ ~isFailure(cResult)
            /\ Len(cResult.valid) + Len(cResult.warnings) = Len(args.customFiles)
            /\ Len(cResult.warnings) = Len(expectedWarnings)
            /\ \A i \in 1..Len(expectedWarnings) :
                   cResult.warnings[i].name = expectedWarnings[i].name
            /\ Len(cResult.valid) = Len(expectedValid)
            /\ \A i \in 1..Len(expectedValid) : cResult.valid[i] = expectedValid[i]

\* two characters that are the same letter in either case, or the same character
sameIgnoringCase(a, b) ==
    \/ a = b
    \/ \E k \in 1..26 : { a, b } = { lowerLetters[k], upperLetters[k] }

\* the text left of s once the white space at both ends is gone spells word,
\* in any case
spellsWhenTrimmed(s, word) ==
    \E i \in 1..Len(s) :
        /\ i + Len(word) - 1 <= Len(s)
        /\ \A k \in 1..Len(word) : sameIgnoringCase(s[i + k - 1], word[k])
        /\ \A k \in 1..(i - 1) : s[k] \in Whitespace
        /\ \A k \in (i + Len(word))..Len(s) : s[k] \in Whitespace

generating == << "g", "e", "n", "e", "r", "a", "t", "i", "n", "g" >>

\* C17: isPlaceholderContent is true exactly of null, undefined and
\* non-string content, of text that is empty once trimmed and of text that
\* is "generating" in any case once trimmed; text that has the marker inside
\* other text is not a placeholder
C17_PlaceholderIffAbsentEmptyOrMarker ==
    (callee = "isPlaceholderContent" /\ cPc = "done") =>
        LET c == args.content
            text == c \notin { nullString, undefinedString, notText }
            blank == \A k \in 1..Len(c) : c[k] \in Whitespace
            otherText == \E k \in 1..Len(c) : c[k] \notin Whitespace
        IN  /\ cResult.value <=> (~text \/ blank \/ spellsWhenTrimmed(c, generating))
            /\ (/\ text
                /\ \E i \in 1..Len(c) :
                       /\ i + 9 <= Len(c)
                       /\ \A k \in 1..10 : sameIgnoringCase(c[i + k - 1], generating[k])
                       /\ \E k \in (1..(i - 1)) \cup ((i + 10)..Len(c)) : c[k] \notin Whitespace)
                   => ~cResult.value

C17_Witness ==
    /\ callee = "isPlaceholderContent"
    /\ cPc = "done"
    /\ args.content = << bom >> \o << "G", "e", "n", "e", "r", "a", "t", "i", "n", "g" >> \o << "\r", "\n" >>
    /\ cResult.value

\* extractChatId has resolved its input to an identity
resolved == callee = "extractChatId" /\ cPc = "done" /\ ~isFailure(cResult)

\* the positions of the hyphens of s
hyphens(s) == { i \in 1..Len(s) : s[i] = "-" }

maxOf(S) == CHOOSE x \in S : \A y \in S : y <= x

\* the last `-`-separated segment of s, and what stands before its hyphen
lastSegment(s) == IF hyphens(s) = {} THEN s ELSE SubSeq(s, maxOf(hyphens(s)) + 1, Len(s))
beforeLastSegment(s) == SubSeq(s, 1, maxOf(hyphens(s)) - 1)

\* a segment that qualifies as a hash: 6 or more ASCII letters and digits,
\* not all lowercase letters and not all digits
qualifiesAsHash(seg) ==
    /\ Len(seg) >= 6
    /\ \A i \in 1..Len(seg) : seg[i] \in Lower \cup Upper \cup Digits
    /\ \E i \in 1..Len(seg) : seg[i] \notin Lower
    /\ \E i \in 1..Len(seg) : seg[i] \notin Digits

allTheSame(id) == id.hashId = id.slug /\ id.featureName = id.slug

\* C18 as stated: when the last segment of the slug qualifies as a hash,
\* featureName + "-" + hashId is the slug; otherwise slug, hashId and
\* featureName are the same string
C18_JoinsBackAsClaimed ==
    resolved =>
        IF qualifiesAsHash(lastSegment(cResult.slug))
        THEN cResult.featureName \o << "-" >> \o cResult.hashId = cResult.slug
        ELSE allTheSame(cResult)

\* C18: when the slug has two or more segments and the last one qualifies
\* as a hash, featureName + "-" + hashId is the slug; otherwise (a single
\* segment, hash-like or not, or a last segment that does not qualify) slug,
\* hashId and featureName are the same string
C18_JoinsBackOrStaysWhole ==
    resolved =>
        IF hyphens(cResult.slug) # {} /\ qualifiesAsHash(lastSegment(cResult.slug))
        THEN cResult.featureName \o << "-" >> \o cResult.hashId = cResult.slug
        ELSE allTheSame(cResult)

C18_Witness ==
    /\ resolved
    /\ args.input = << "h", "t", "t", "p", ":", "/", "/", "v", "0", ".", "d", "e", "v", "/", "c", "h", "a", "t", "/",
                       "a", "b", "-", "X", "y", "1", "2", "z", "Q", "?", "q", "=", "1" >>
    /\ cResult.slug = << "a", "b", "-", "X", "y", "1", "2", "z", "Q" >>
    /\ cResult.featureName = << "a", "b" >>
    /\ cResult.hashId = << "X", "y", "1", "2", "z", "Q" >>

\* C19: hashId differs from the slug exactly when the slug has two or more
\* segments and its last segment qualifies as a hash; then hashId is that
\* last segment and featureName is everything before its hyphen, hash-like
\* segments in the middle included
C19_HashIdDiffersIffLastSegmentQualifies ==
    resolved =>
        LET slug == cResult.slug
        IN  /\ cResult.hashId # slug <=>
                   (hyphens(slug) # {} /\ qualifiesAsHash(lastSegment(slug)))
            /\ cResult.hashId # slug =>
                   /\ cResult.hashId = lastSegment(slug)
                   /\ cResult.featureName = beforeLastSegment(slug)

C19_Witness ==
    /\ resolved
    /\ args.input = << "X", "y", "1", "2", "z", "Q", "-", "1", "2", "3", "4", "5", "6", "-",
                       "a", "1", "b", "2", "c", "3" >>
    /\ cResult.hashId = << "a", "1", "b", "2", "c", "3" >>
    /\ cResult.featureName = << "X", "y", "1", "2", "z", "Q", "-", "1", "2", "3", "4", "5", "6" >>

\* the position of the first ":" of t, 0 when there is none
firstColon(t) ==
    LET colons == { i \in 1..Len(t) : t[i] = ":" }
    IN  IF colons = {} THEN 0 ELSE minOf(colons)

\* t is a URL: a scheme (a letter, then letters, digits, "+", "." or "-")
\* followed by "://"
hasScheme(t) ==
    LET c == firstColon(t)
    IN  /\ c >= 2
        /\ c + 2 <= Len(t)
        /\ t[c + 1] = "/" /\ t[c + 2] = "/"
        /\ t[1] \in Lower \cup Upper
        /\ \A i \in 2..(c - 1) : t[i] \in Lower \cup Upper \cup Digits \cup { "+", ".", "-" }

schemeOf(t) == toLowerCase(SubSeq(t, 1, firstColon(t) - 1))

\* what follows "://"
afterScheme(t) == SubSeq(t, firstColon(t) + 3, Len(t))

\* the host of a URL: what follows "://" up to the first "/", "?" or "#"
hostOf(t) ==
    LET r == afterScheme(t)
        ends == { i \in 1..Len(r) : r[i] \in { "/", "?", "#" } }
    IN  IF ends = {} THEN r ELSE SubSeq(r, 1, minOf(ends) - 1)

\* the path of a URL: from the first "/" after the host up to "?" or "#"
pathOfUrl(t) ==
    LET r == afterScheme(t)
        afterHost == SubSeq(r, Len(hostOf(t)) + 1, Len(r))
        ends == { i \in 1..Len(afterHost) : afterHost[i] \in { "?", "#" } }
    IN  IF ends = {} THEN afterHost ELSE SubSeq(afterHost, 1, minOf(ends) - 1)

\* a path /chat/<slug>, a trailing "/" or further segments allowed
isChatPath(path) ==
    /\ Len(path) >= 7
    /\ SubSeq(path, 1, 6) = << "/", "c", "h", "a", "t", "/" >>
    /\ path[7] \in SlugChars

v0Hosts == { << "v", "0", ".", "a", "p", "p" >>, << "v", "0", ".", "d", "e", "v" >> }

\* C20: extractChatId throws, returning no identity, for null and undefined
\* input, for every URL whose scheme is not http or https, and for every
\* http(s) URL whose host is not v0.app or v0.dev or whose path is not
\* /chat/<slug>
C20_RejectsForeignLocators ==
    (callee = "extractChatId" /\ cPc = "done") =>
        /\ args.input \in { nullString, undefinedString } => isFailure(cResult)
        /\ args.input \notin { nullString, undefinedString } =>
               LET t == trim(args.input)
               IN  hasScheme(t) =>
                       /\ schemeOf(t) \notin { << "h", "t", "t", "p" >>,
                                               << "h", "t", "t", "p", "s" >> }
                              => isFailure(cResult)
                       /\ hostOf(t) \notin v0Hosts => isFailure(cResult)
                       /\ ~isChatPath(pathOfUrl(t)) => isFailure(cResult)

\* the requests made so far to the given endpoint
requestsTo(endpoint) == { k \in 1..Len(requests) : requests[k].endpoint = endpoint }

unauthorized == << "u", "n", "a", "u", "t", "h", "o", "r", "i", "z", "e", "d" >>
notFound == << "n", "o", "t", " ", "f", "o", "u", "n", "d" >>

\* C21: a downloadVersionZip call makes one GET; a 2xx answer hands the
\* payload on to the extraction, 401 fails with a message that contains
\* "unauthorized" in some casing, 404 with one that contains "not found",
\* and any other status that is not 2xx with a message naming that status
C21_DownloadStatusMapping ==
    pPc # "idle" =>
        /\ Cardinality(requestsTo("download")) <= 1
        /\ callsOf("downloadAndExtract") # {} => Cardinality(requestsTo("download")) = 1
        /\ \A k \in requestsTo("download") :
               k <= Len(responses) =>
                   LET status == responses[k]
                       text == toLowerCase(messageText(pResult.msg))
                   IN  /\ ok(status) =>
                              /\ pPc \in { "extracting", "customFiles", "done" }
                              /\ zPc # "idle"
                              /\ zipBuffer = NULL \/ zipBuffer \in DownloadBodies
                       /\ ~ok(status) =>
                              /\ pPc = "done"
                              /\ isFailure(pResult)
                              /\ zPc = "idle"
                              /\ Len(requests) = k
                       /\ status = 401 =>
                              includes(text, unauthorized) /\ pResult.status = 401
                       /\ status = 404 =>
                              includes(text, notFound) /\ pResult.status = 404
                       /\ (~ok(status) /\ status \notin { 0, 401, 404 }) =>
                              /\ pResult.status = status
                              /\ Len(text) > 0
                              /\ ~includes(text, unauthorized)
                              /\ ~includes(text, notFound)

C21_Witness ==
    /\ pPc = "done"
    /\ Cardinality(requestsTo("download")) = 1
    /\ \E k \in requestsTo("download") : k = Len(responses) /\ responses[k] = 404
    /\ isFailure(pResult)
    /\ pResult.msg = "Not found: version or chat not found (status"
    /\ pResult.status = 404

\* C22: every run that ends on a response that is not 2xx (the slug request,
\* the hashId request, a later page, the download, the custom file list)
\* fails with a message that has both the status of that response and the
\* identifier the request was made with
C22_RemoteErrorsNameStatusAndIdentifier ==
    (/\ pPc = "done"
     /\ Len(responses) >= 1
     /\ Len(responses) = Len(requests)
     /\ ~ok(responses[Len(responses)])
     /\ responses[Len(responses)] # 0) =>
        /\ isFailure(pResult)
        /\ pResult.status = responses[Len(responses)]
        /\ pResult.ident = requests[Len(requests)].id

\* requests i and j ask the same endpoint with the same identifier, cursor
\* and version
sameRequest(i, j) ==
    /\ requests[i].endpoint = requests[j].endpoint
    /\ requests[i].id = requests[j].id
    /\ requests[i].cursor = requests[j].cursor
    /\ requests[i].versionId = requests[j].versionId

\* C23 as stated: in a run no two requests are made for the same endpoint
\* with the same identifier and the same cursor, whatever the input
C23_NoRequestTwiceAsClaimed ==
    pPc # "idle" =>
        \A i, j \in 1..Len(requests) : i < j => ~sameRequest(i, j)

\* C23: no request follows a failed one, except the single hashId request
\* that follows a 404 to the slug request; that request is made also when
\* hashId equals slug, and it is then the only request of the run that
\* repeats an earlier one
C23_NothingRetried ==
    pPc # "idle" =>
        /\ \A k \in 1..Len(responses) :
               (~ok(responses[k]) /\ ~(k = 1 /\ responses[1] = 404)) => Len(requests) = k
        /\ \A i, j \in 1..Len(requests) :
               (i < j /\ sameRequest(i, j)) =>
                   /\ i = 1 /\ j = 2
                   /\ responses[1] = 404
                   /\ identity.slug = identity.hashId
        /\ Len(requests) >= 2 =>
               ((requests[2].endpoint = "versions" /\ requests[2].cursor = 0)
                    <=> responses[1] = 404)
        /\ \A k \in 1..Len(requests) :
               (k >= 3 /\ requests[k].endpoint = "versions") => requests[k].cursor # 0
        /\ responses # << >> /\ responses[1] = 404 /\ Len(requests) >= 2 =>
               requests[2].id = identity.hashId

C23_Witness ==
    /\ pPc = "done"
    /\ pResult.state = "ok"
    /\ identity.slug = identity.hashId
    /\ Len(requests) >= 2
    /\ responses[1] = 404
    /\ sameRequest(1, 2)

C25_SuggestsNextOlderCompleted ==
    (pPc = "done" /\ pResult.state = "ok" /\ ~options.listVersions) =>
        LET w == validationResult.warnings
            vs == fResult.versions
            at == { i \in 1..Len(vs) : vs[i].id = selectedVersionId }
            later == { j \in 1..Len(vs) :
                          vs[j].status = "completed" /\ \E i \in at : i < j }
        IN  IF Len(w) = 0 THEN logged = << >>
            ELSE /\ Len(logged) = Len(w) + (IF later = {} THEN 0 ELSE 1)
                 /\ \A i \in 1..Len(w) :
                        logged[i].kind = "Warning" /\ logged[i].name = w[i].name
                 /\ later # {} =>
                        /\ logged[Len(logged)].kind = "Try"
                        /\ logged[Len(logged)].id = vs[minOf(later)].id

C25_Witness ==
    /\ pPc = "done"
    /\ pResult.state = "ok"
    /\ ~options.listVersions
    /\ options.versionId = ""
    /\ [i \in 1..Len(fResult.versions) |-> fResult.versions[i].id] =
           << "ver_004", "ver_002", "ver_001" >>
    /\ selectedVersionId = "ver_002"
    /\ Len(validationResult.warnings) = 2
    /\ Len(logged) = 3
    /\ logged[3].kind = "Try"
    /\ logged[3].id = "ver_001"

\* C26: a non-list run that returns agrees with the manifest it wrote on
\* featureName, versionId, the chat id, customFileCount, defaultFileCount
\* and warnings, and its designDir is the directory that holds the
\* manifest.json written in the run
C26_ResultMirrorsManifest ==
    (pPc = "done" /\ pResult.state = "ok" /\ ~options.listVersions) =>
        /\ manifest # NULL
        /\ pResult.featureName = manifest.featureName
        /\ pResult.versionId = manifest.versionId
        /\ pResult.resolvedChatId = manifest.chatId
        /\ pResult.customFileCount = manifest.customFileCount
        /\ pResult.defaultFileCount = manifest.defaultFileCount
        /\ pResult.warnings = manifest.warnings
        /\ \E p \in DOMAIN fsFiles :
               /\ fsFiles[p] = manifest
               /\ dirname(p) = pResult.designDir
               /\ p = pResult.designDir \o << "/", "m", "a", "n", "i", "f", "e", "s", "t", ".", "j", "s", "o", "n" >>
               /\ p = manifestPath

C26_Witness ==
    /\ pPc = "done"
    /\ pResult.state = "ok"
    /\ ~options.listVersions
    /\ manifest # NULL
    /\ pResult.resolvedChatId = manifest.chatId
    /\ manifest.chatId # identity.slug
    /\ pResult.customFileCount = 1
    /\ pResult.defaultFileCount = 1
    /\ Len(customFileNames) = 2
    /\ Len(pResult.warnings) = 1
    /\ pResult.featureName = << "m", "y" >>

\* C27: in every manifest written by a run, versionSelectedFrom is the
\* number of versions the server delivered over all pages, pinned version
\* or not; customFileCount + defaultFileCount is the number of entries of
\* files and the totalFiles of the result; and the entries of files with
\* isCustom true are customFileCount many
C27_ManifestCountsAgree ==
    (pPc # "idle" /\ manifest # NULL) =>
        /\ manifest.versionSelectedFrom = Len(concatPages(pages))
        /\ manifest.customFileCount + manifest.defaultFileCount = Len(manifest.files)
        /\ Len(manifest.files) = pResult.totalFiles
        /\ Len(manifest.files) = Len(zWrites)
        /\ Cardinality({ i \in 1..Len(manifest.files) : manifest.files[i].isCustom })
               = manifest.customFileCount

C27_Witness ==
    /\ pPc = "done"
    /\ manifest # NULL
    /\ options.versionId = "ver_999"
    /\ Len(pages) = 2
    /\ manifest.versionSelectedFrom = 3
    /\ manifest.customFileCount = 1
    /\ manifest.defaultFileCount = 1
    /\ pResult.totalFiles = 2
    /\ manifest.files[1].isCustom
    /\ ~manifest.files[2].isCustom

\* the directory <outputDir>/designs/<name>/v0-source, name being a path
\* component of its own
sourceDirOf(outputDir, name) ==
    outputDir \o << "/", "d", "e", "s", "i", "g", "n", "s", "/" >> \o name
              \o << "/", "v", "0", "-", "s", "o", "u", "r", "c", "e" >>

\* the first position of name in calls, 0 when it was never called
firstCall(name) == IF callsOf(name) = {} THEN 0 ELSE minOf(callsOf(name))

\* C28: once the feature-name check has passed and the output directory is
\* built, it is <outputDir>/designs/<effective feature name>/v0-source with
\* the feature name between designs and v0-source; mkdirSync is called on
\* it before downloadAndExtract, and the directory exists before any file
\* is written
C28_OutputDirectoryLayout ==
    (pPc # "idle" /\ designDir # << >>) =>
        /\ designDir = sourceDirOf(options.outputDir, effectiveFeatureName)
        /\ dirname(designDir) =
               options.outputDir \o << "/", "d", "e", "s", "i", "g", "n", "s", "/" >>
                                 \o effectiveFeatureName
        /\ firstCall("mkdirSync") > 0
        /\ firstCall("downloadAndExtract") > 0 =>
               firstCall("mkdirSync") < firstCall("downloadAndExtract")
        /\ (zWrites # << >> \/ fsFiles # << >>) =>
               (designDir \in fsDirs /\ firstCall("mkdirSync") > 0)

\* the path an entry of the archive is written to
entryPath(name) == resolve(targetDir, name)

\* every entry of the archive resolves strictly inside the target directory
noEntryEscapes ==
    \A i \in 1..Len(zipBuffer.entries) :
        strictlyInside(entryPath(zipBuffer.entries[i].name), resolve(targetDir, << >>))

\* no entry is written where another entry needs a directory or is written
noEntryInTheWay ==
    \A i, j \in 1..Len(zipBuffer.entries) :
        i # j => entryPath(zipBuffer.entries[i].name)
                     \notin ancestorsAndSelf(entryPath(zipBuffer.entries[j].name))

\* the extraction returned one descriptor and made one write per entry of
\* the archive, each descriptor with the name, the byte length and the
\* decoded text of its entry
oneWriteAndDescriptorPerEntry ==
    /\ zResult = "ok"
    /\ Len(zWrites) = Len(zipBuffer.entries)
    /\ Len(zFiles) = Len(zipBuffer.entries)
    /\ \A i \in 1..Len(zipBuffer.entries) :
           LET e == zipBuffer.entries[i]
               descriptors == { k \in 1..Len(zFiles) : zFiles[k].name = e.name }
           IN  /\ Cardinality(descriptors) = 1
               /\ Cardinality({ k \in 1..Len(zWrites) : zWrites[k] = entryPath(e.name) }) = 1
               /\ fsFiles[entryPath(e.name)] = e.data
               /\ \A k \in descriptors :
                      /\ zFiles[k].size = Len(e.data)
                      /\ Len(zFiles[k].content) = Len(e.data)
                      /\ \A c \in 1..Len(e.data) :
                             zFiles[k].content[c] =
                                 IF e.data[c] = "xFF" THEN "uFFFD" ELSE e.data[c]
    /\ (zipBuffer.entries = << >>) => (zFiles = << >> /\ fsFiles = << >>)

C31_NamesInServerOrder ==
    (callee = "fetchCustomFileList" /\ cPc = "done"
        /\ args.resolvedChatId # nullString /\ args.status = 200) =>
        LET files == args.body.files
            kept == { i \in 1..Len(files) :
                         files[i].name # nullString \/ files[i].path # nullString }
            place(i) == Cardinality({ j \in kept : j <= i })
        IN  /\ cResult.state = "returned"
            /\ Len(cResult.value) = Cardinality(kept)
            /\ \A i \in kept :
                   cResult.value[place(i)] =
                       IF files[i].name # nullString THEN files[i].name ELSE files[i].path
            /\ ~args.body.hasFiles => cResult.value = << >>

C31_Witness ==
    /\ callee = "fetchCustomFileList"
    /\ cPc = "done"
    /\ args.status = 200
    /\ args.body.hasFiles
    /\ args.body.files = << [name |-> nullString, path |-> n_d_a],
                            [name |-> nullString, path |-> nullString],
                            [name |-> << >>, path |-> n_d_a] >>
    /\ cResult.state = "returned"
    /\ cResult.value = << n_d_a, << >> >>

\* the token after position i, undefinedString when there is none
tokenAfter(i) == IF i + 1 <= Len(args.argv) THEN args.argv[i + 1] ELSE undefinedString

\* the token after position i exists, is not empty and does not start
\* with "--"
validAfter(i) ==
    /\ i + 1 <= Len(args.argv)
    /\ args.argv[i + 1] # << >>
    /\ ~(Len(args.argv[i + 1]) >= 2 /\ args.argv[i + 1][1] = "-" /\ args.argv[i + 1][2] = "-")

\* the positions at which the loop has met --version as an option
versionOptions ==
    { k \in 1..Len(cResult.at) : args.argv[cResult.at[k]] = t_version }

\* C32: when the loop meets --version (as an option, not as the value that
\* --output-dir consumes), it takes the next token as versionId and skips
\* it exactly when that token exists, is not empty and does not start with
\* "--"; otherwise versionId keeps its value and the loop goes on at the
\* next token, so "--version --list-versions" sets listVersions and leaves
\* versionId null; the returned versionId is the value taken at the last
\* --version that had one, and null when there was none
C32_VersionOption ==
    /\ [][(callee = "parseArgs" /\ cPc = "loop" /\ cResult.i <= Len(args.argv)
             /\ args.argv[cResult.i] = t_version) =>
               IF validAfter(cResult.i)
               THEN /\ cResult'.versionId = tokenAfter(cResult.i)
                    /\ cResult'.i = cResult.i + 2
               ELSE /\ cResult'.versionId = cResult.versionId
                    /\ cResult'.i = cResult.i + 1
                    /\ cResult'.listVersions = cResult.listVersions
                    /\ cResult'.inputArg = cResult.inputArg]_vars
    /\ [](callee = "parseArgs" /\ cPc = "done" =>
            LET taken == { k \in versionOptions : validAfter(cResult.at[k]) }
            IN  /\ taken = {} => cResult.versionId = nullString
                /\ taken # {} => cResult.versionId = tokenAfter(cResult.at[maxOf(taken)])
                /\ \A k \in versionOptions :
                       (cResult.at[k] < Len(args.argv) /\ ~validAfter(cResult.at[k])) =>
                           /\ k < Len(cResult.at)
                           /\ cResult.at[k + 1] = cResult.at[k] + 1
                           /\ (args.argv[cResult.at[k] + 1] = t_list_versions
                                   => cResult.listVersions))

C32_Witness ==
    /\ callee = "parseArgs"
    /\ cPc = "done"
    /\ args.argv = << t_version, t_v1, t_version, t_list_versions >>
    /\ cResult.versionId = t_v1
    /\ cResult.listVersions
    /\ cResult.at = << 1, 3, 4 >>

\* the collaborators of a run in the order of the code, selectBestVersion
\* left out when skipped is TRUE
callOrder(skipped) ==
    << "fetchVersionList" >>
        \o (IF skipped THEN << >> ELSE << "selectBestVersion" >>)
        \o << "mkdirSync", "downloadAndExtract", "fetchCustomFileList",
              "classifyFiles", "validateCustomFiles", "writeFileSync" >>

\* calls is the beginning of order
beginsOrder(order) == Len(calls) <= Len(order) /\ calls = SubSeq(order, 1, Len(calls))

\* a collaborator is called only when the one before it has completed
eachAfterThePrevious ==
    /\ (Len(calls) >= 2 => (fPc = "done" /\ fResult.state = "ok"))
    /\ (callsOf("fetchCustomFileList") # {} =>
           /\ zPc = "done"
           /\ zResult = "ok"
           /\ Len(zWrites) = Len(zipBuffer.entries)
           /\ \A i \in 1..Len(zipBuffer.entries) :
                  resolve(designDir, zipBuffer.entries[i].name) \in DOMAIN fsFiles)
    /\ (callsOf("classifyFiles") # {} =>
           /\ zPc = "done"
           /\ Len(extractedFiles) = Len(zipBuffer.entries)
           /\ Len(responses) = Len(requests))

\* C33 (as claimed): in every run the collaborators are called in the one
\* order, each at most once and after the previous one has completed,
\* selectBestVersion being skipped when a version is pinned
C33_CallOrderAsClaimed ==
    pPc # "idle" =>
        /\ beginsOrder(callOrder(options.versionId # ""))
        /\ eachAfterThePrevious

\* C33 (as the code has it): the same, selectBestVersion being skipped
\* when a version is pinned and the run is not a list run; a list run calls
\* fetchVersionList and selectBestVersion and nothing else
C33_CallOrder ==
    pPc # "idle" =>
        /\ beginsOrder(callOrder(options.versionId # "" /\ ~options.listVersions))
        /\ options.listVersions => Len(calls) <= 2
        /\ eachAfterThePrevious

C33_Witness ==
    /\ pPc = "done"
    /\ pResult.state = "ok"
    /\ options.versionId = "ver_002"
    /\ ~options.listVersions
    /\ Len(zipBuffer.entries) = 2
    /\ calls = << "fetchVersionList", "mkdirSync", "downloadAndExtract",
                  "fetchCustomFileList", "classifyFiles", "validateCustomFiles",
                  "writeFileSync" >>

\* the identifier the enumeration adopted: the slug, or the hashId after a
\* 404 to the slug request
adopted == IF responses # << >> /\ responses[1] = 404 THEN identity.hashId ELSE identity.slug

\* C34: in every run that is not a list run the archive download and the
\* custom-file-list fetch are made for the same chat identifier and version
\* id: the identifier the enumeration adopted and the selected version id;
\* the chatId and versionId of the manifest are that pair
C34_SamePairDownstream ==
    (pPc # "idle" /\ ~options.listVersions) =>
        /\ \A k \in requestsTo("download") \cup requestsTo("files") :
               /\ requests[k].id = adopted
               /\ requests[k].versionId = selectedVersionId
               /\ options.versionId # "" => requests[k].versionId = options.versionId
        /\ \A k \in requestsTo("download"), m \in requestsTo("files") :
               requests[k].id = requests[m].id /\ requests[k].versionId = requests[m].versionId
        /\ manifest # NULL =>
               /\ manifest.chatId = adopted
               /\ manifest.versionId = selectedVersionId
               /\ requestsTo("download") # {} /\ requestsTo("files") # {}

C34_Witness ==
    /\ pPc = "done"
    /\ pResult.state = "ok"
    /\ manifest # NULL
    /\ identity.slug # identity.hashId
    /\ responses[1] = 404
    /\ manifest.chatId = identity.hashId
    /\ \E k \in requestsTo("download"), m \in requestsTo("files") :
           /\ requests[k].id = identity.hashId
           /\ requests[m].id = identity.hashId
           /\ requests[m].versionId = "ver_002"

\* the requests for a page after the first: those that carry a cursor
laterPages == { k \in requestsTo("versions") : requests[k].cursor # 0 }

\* the first-page request that was answered with a page
resolvingRequest ==
    { k \in requestsTo("versions") :
          requests[k].cursor = 0 /\ k <= Len(responses) /\ ok(responses[k]) }

\* C35: every page request after the first is made with the identifier that
\* the first page was obtained with; a response to it that is not 2xx, a
\* 404 included, ends the enumeration with an error: no request follows,
\* none to the other identifier, and no versions are returned
C35_LaterPagesUseResolvedIdOnly ==
    fPc # "idle" =>
        \A k \in laterPages :
            /\ Cardinality(resolvingRequest) = 1
            /\ \A r \in resolvingRequest : r < k /\ requests[k].id = requests[r].id
            /\ (k <= Len(responses) /\ ~ok(responses[k])) =>
                   /\ Len(requests) = k
                   /\ fPc = "done"
                   /\ isFailure(fResult)
                   /\ "versions" \notin DOMAIN fResult

C35_Witness ==
    /\ fPc = "done"
    /\ fSlug # fHashId
    /\ Len(requests) = 3
    /\ responses = << 404, 200, 404 >>
    /\ requests[2].id = fHashId
    /\ requests[3].id = fHashId
    /\ requests[3].cursor # 0
    /\ isFailure(fResult)

\* the versions of the pages answered so far, in the order of the answers
RECURSIVE received(_)
received(n) ==
    IF n = 0 THEN << >>
    ELSE received(n - 1) \o
         (IF ok(responses[n]) /\ pages[requests[n].cursor + 1].isArray
          THEN pages[requests[n].cursor + 1].versions ELSE << >>)

\* C36: fetchVersionList has at most one request outstanding; a request
\* for a further page is issued only when the page before it has been
\* answered and taken in, and carries the cursor of that answer; the slug
\* request and the hashId request carry no cursor
C36_OneRequestAtATime ==
    (fPc # "idle" /\ pPc = "idle") =>
        /\ Len(requests) - Len(responses) \in { 0, 1 }
        /\ (Len(requests) > Len(responses)) <=> (fPc \in { "slugWait", "hashWait", "pageWait" })
        /\ \A k \in 1..Len(requests) :
               IF k = 1 \/ (k = 2 /\ responses[1] = 404)
               THEN requests[k].cursor = 0
               ELSE /\ ok(responses[k - 1])
                    /\ pages[requests[k - 1].cursor + 1].cursor # 0
                    /\ requests[k].cursor = pages[requests[k - 1].cursor + 1].cursor
        /\ fPc \in { "page", "pageWait" } => allVersions = received(Len(responses))

C36_Witness ==
    /\ pPc = "idle"
    /\ fPc = "pageWait"
    /\ Len(requests) = 3
    /\ responses = << 404, 200 >>
    /\ requests[3].cursor = 1
    /\ Len(allVersions) = 2

\* the entries of the archive that resolve outside the target directory
escaping ==
    { i \in 1..Len(zipBuffer.entries) :
          resolve(targetDir, << >>)
              \notin ancestorsAndSelf(entryPath(zipBuffer.entries[i].name)) }

\* the extraction writes the entries in archive order, removes none of
\* them, and stops at the first escaping entry: the entries before it are
\* written and no entry at or after it is
extractionStopsAtFirstEscape ==
    (zPc \notin { "idle", "start" } /\ zipBuffer # NULL) =>
        /\ \A k \in 1..Len(zWrites) :
               /\ zWrites[k] = entryPath(zipBuffer.entries[k].name)
               /\ zWrites[k] \in DOMAIN fsFiles
        /\ escaping # {} => Len(zWrites) < minOf(escaping)
        /\ (zPc = "done" /\ escaping # {} /\ zResult \notin { "MkdirError", "WriteError" }) =>
               /\ zResult = "ZipSlip"
               /\ Len(zWrites) = minOf(escaping) - 1

\* a run that fails after the output directory was made leaves the
\* directory and every extracted file in place and has no manifest.json
failureLeavesFilesAndNoManifest ==
    (pPc = "done" /\ isFailure(pResult) /\ callsOf("downloadAndExtract") # {}) =>
        /\ designDir \in fsDirs
        /\ \A k \in 1..Len(zWrites) : zWrites[k] \in DOMAIN fsFiles
        /\ \A k \in 1..Len(zFiles) : resolve(designDir, zFiles[k].name) \in DOMAIN fsFiles
        /\ manifestPath \notin DOMAIN fsFiles
        /\ manifest = NULL

\* C37: nothing written is removed or rolled back: the extraction handles
\* the entries in archive order and stops at the first escaping entry,
\* with every earlier entry written and no entry at or after it written;
\* after a failure of the extraction, of the custom-file-list fetch, of
\* classification or of validation, designDir and the extracted files are
\* on disk and there is no manifest.json
C37_NothingRolledBack ==
    /\ extractionStopsAtFirstEscape
    /\ failureLeavesFilesAndNoManifest

\* the requests answered with a page that carries no cursor
lastPages ==
    { k \in 1..Len(responses) :
          ok(responses[k]) /\ pages[requests[k].cursor + 1].cursor = 0 }

\* the enumeration has returned
returned == fPc = "done" /\ fResult.state = "ok"

\* the enumeration returns exactly when a page without a cursor has
\* arrived, and no request follows that page; against a server whose every
\* page carries a cursor it does not return
returnsAtTheLastPage ==
    /\ returned <=> lastPages # {}
    /\ \A k \in lastPages : Len(requests) = k
    /\ (\A i \in 1..Len(pages) : pages[i].cursor # 0) => ~returned

\* C38 (as claimed): fetchVersionList returns if and only if some page
\* carries no cursor, issues no request after it, and fails if a request
\* fails; against a server that answers every page with a cursor, a
\* repeated one included, it never returns
C38_ReturnsIffLastPageAsClaimed ==
    (fPc # "idle" /\ pPc = "idle") =>
        /\ returnsAtTheLastPage
        /\ (fPc = "done" /\ \E k \in 1..Len(responses) : ~ok(responses[k])) =>
               isFailure(fResult)

\* C38 (as the code has it): the same, where a request that fails is any
\* request not answered 2xx except the slug request answered 404, which
\* the hashId request follows
C38_ReturnsIffLastPage ==
    (fPc # "idle" /\ pPc = "idle") =>
        /\ returnsAtTheLastPage
        /\ \A k \in 1..Len(responses) :
               (~ok(responses[k]) /\ ~(k = 1 /\ responses[1] = 404)) =>
                   /\ fPc = "done"
                   /\ isFailure(fResult)
                   /\ Len(requests) = k

C38_Witness ==
    /\ pPc = "idle"
    /\ fPc = "page"
    /\ Len(pages) = 2
    /\ pages[2].cursor = 1
    /\ Len(requests) = MaxRequests
    /\ Len(responses) = MaxRequests
    /\ \A k \in 2..Len(requests) : requests[k].cursor = 1
    /\ \A k \in 1..Len(responses) : ok(responses[k])
    /\ fResult = pending

\* the place in the enumerated list of the version selectBestVersion
\* chooses: the first completed one, failing that the first one; 0 when
\* the list is empty
chosenAt ==
    LET vs == fResult.versions
        completedAt == { i \in 1..Len(vs) : vs[i].status = "completed" }
    IN  IF completedAt # {} THEN minOf(completedAt)
        ELSE IF Len(vs) > 0 THEN 1 ELSE 0

\* C39: in a list run the versionId option has no effect: the versionId of
\* the result and the line marked selected are those of the version that
\* selectBestVersion chooses from the enumerated list, whatever version id
\* is pinned; no download is asked for
C39_ListModeIgnoresPinnedVersion ==
    (pPc = "done" /\ pResult.state = "ok" /\ options.listVersions) =>
        LET vs == fResult.versions
            lines == pResult.listVersionsOutput.lines
        IN  /\ pResult.versionId = IF chosenAt = 0 THEN "" ELSE vs[chosenAt].id
            /\ \A i \in 1..Len(lines) :
                   lines[i].selected <=> (chosenAt # 0 /\ vs[i].id = vs[chosenAt].id)
            /\ requestsTo("download") = {}
            /\ selectedVersionId = ""

C39_Witness ==
    /\ pPc = "done"
    /\ pResult.state = "ok"
    /\ options.listVersions
    /\ options.versionId = "ver_999"
    /\ [i \in 1..Len(fResult.versions) |-> fResult.versions[i].id] =
           << "ver_004", "ver_002", "ver_001" >>
    /\ pResult.versionId = "ver_002"
    /\ pResult.listVersionsOutput.lines[2].selected
    /\ ~pResult.listVersionsOutput.lines[3].selected

====
